---- MODULE Spec2Model ----
(***************************************************************************)
(* A model of the SFF sprite-archive tool of src/main.cpp.                 *)
(*                                                                         *)
(* Part I   the four pixel codecs (RlePcxDecode, Rle8Decode, Rle5Decode,   *)
(*          Lz5Decode) as loop-level state machines over a compressed      *)
(*          byte buffer srcPx and an output buffer dstPx.                  *)
(*          Specification: Spec.                                           *)
(*                                                                         *)
(* Part II  the driver (main) and the archive parser (extractSff with      *)
(*          readSffHeader, the palette-bank loop, the sprite loop,         *)
(*          readSpriteDataV1 and readSpriteDataV2) over archives whose     *)
(*          records are chosen when they are read.                         *)
(*          Specification: SpecSff.                                        *)
(*                                                                         *)
(* Part III the atlas assembler (initAtlas and generateAtlas) over a       *)
(*          table of decoded sprites with their pixels.                    *)
(*          Specification: SpecAtlas.                                      *)
(*                                                                         *)
(* Part IV  the canvas-size computation of initAtlas as a function of the  *)
(*          declared sizes of the sprites it places, over sizes up to the  *)
(*          65535 a uint16_t holds.                                        *)
(*          Specification: SpecCanvas.                                     *)
(***************************************************************************)
EXTENDS Integers, Sequences, FiniteSets, TLC

VARIABLES
    \* ---- Part I: one call of a decoder ---------------------------------
    fmt,      \* which decoder is called: "pcx", "rle8", "rle5", "lz5"
    srcPx,    \* the compressed bytes handed to the decoder (srcLen = Len)
    Size,     \* s->Size: <<width, height>> declared for the sprite
    rle,      \* s->rle: the PCX scanline stride (bytes per line)
    cpc,      \* position in the decoder: "call", "loop", "copy", "done",
              \* "null" (returned NULL), "fault" (invalid read trapped)
    i, j, k,  \* input cursor, output cursor, PCX column counter
    n, d,     \* LZ5: count and distance of the back-reference being copied
    ct, cts,  \* LZ5: control byte and the index of its next bit
    rb, rbc,  \* LZ5: distance-bit accumulator and its bit count
    dstPx,    \* the output buffer, a function on 0 .. dstLen-1
    \* ---- observations of the run (history variables) -------------------
    rd,       \* indices of srcPx read by the last step
    wrote,    \* indices the decoder has stored to so far
    bref,     \* <<position, distance>> of every byte a back-reference stored
    kStart,   \* PCX: k when the last run started
    jStart,   \* PCX: j when the last run started
    lineStart,\* PCX: number of the scanline in which the last run started
    line,     \* PCX: number of completed scanlines (resets of k)
    runIters, \* PCX: iterations of the run loop made by the last step
    spin,     \* the last loop iteration left i, j and k as they were
    \* ---- Part II: the driver and the parser ----------------------------
    mpc,      \* position of main: "next", "header", "bank", "sprite",
              \* "initAtlas", "printSff", "generateAtlas", "freeSff",
              \* "deinitAtlas", "end", "exit" (exit(2)), "fault"
    argi,     \* number of archives main is done with
    header,           \* sff.header: Ver0, NumberOfSprites, NumberOfPalettes
    numPalettes,      \* sff.palList.numPalettes
    uniquePals,       \* keys of the map uniquePals of extractSff
    pi,               \* index i of the palette-bank loop
    sprites,          \* sff.sprites: the records allocated so far
    si,               \* index i of the sprite loop
    prev,             \* prev of extractSff: 0 for NULL, else index + 1
    numLinkedSprites, \* sff.numLinkedSprites
    palettesSize,     \* sff.palettes.size()
    rc,               \* value returned by extractSff (0 while it runs)
    \* ---- observations of the run (history variables) -------------------
    tableAlloc,  \* sff.sprites was allocated by the current extractSff
    loaded,      \* slots of palList.palettes written by the current extractSff
    palKey,      \* (group, number) of the palette-bank entry read last
    closes,      \* fclose calls on the file the current extractSff opened
    stale,       \* slots of palList.palettes that hold colours an earlier
                 \* extractSff wrote and the current one has not replaced
    hdrIn,       \* the header bytes handed to readSffHeader
    recIn,       \* size and same-palette byte of the sprite records read, the
                 \* sprite a link names, whether the record's buffer was lost,
                 \* whether its palette came from the file or with the
                 \* warning, and sff->palettes.size() after the record
    palReads,    \* palette-bank entries read by the current extractSff
    sprReads,    \* sprite records read by the current extractSff
    palAccess,   \* indices at which palList.palettes was read for a sprite
    atlasStages, \* atlas stages run for the current archive
    \* ---- Part III: the atlas assembler ---------------------------------
    apc,        \* position: "initAtlas", "pack", "retry", "crop", "raster",
                \* "done" (returned 0), "empty" (returned -2), "exit" (exit(2)),
                \* "hang" (a loop of initAtlas does not end)
    tbl,        \* atlas->sff->sprites: Size, data (non-NULL), px (the pixels
                \* data points to), palidx, atlas_x, atlas_y of every sprite
    usePalette, \* atlas->usePalette
    rects,      \* atlas->rects: id, w, h, x, y, was_packed
    width,      \* atlas->width  (uint16_t)
    height,     \* atlas->height (uint16_t)
    o,          \* the output image o, a function on 0 .. width*height-1
    \* ---- observations of the run (history variables) -------------------
    own,        \* for every byte of o the sprite whose rows were copied to it
    packIn,     \* width, height and rects handed to each stbrp_pack_rects
    saved,      \* the atlas image was handed to save_as_png
    \* ---- Part IV: the canvas-size computation --------------------------
    zpc,        \* position: "call", "return" (both loops ended), "hang" (a
                \* doubling loop no longer changes its counter)
    dims        \* Size of the sprites initAtlas places, in table order

codecVars == <<fmt, srcPx, Size, rle, cpc, i, j, k, n, d, ct, cts, rb, rbc,
               dstPx, rd, wrote, bref, kStart, jStart, lineStart, line, runIters, spin>>

sffVars == <<mpc, argi, header, numPalettes, uniquePals, pi, sprites,
             si, prev, numLinkedSprites, palettesSize, rc, tableAlloc, loaded, stale, palKey, closes, hdrIn,
             recIn, palReads, sprReads, palAccess, atlasStages>>

atlasVars == <<apc, tbl, usePalette, rects, width, height, o, own, packIn, saved>>

canvasVars == <<zpc, dims>>

vars == <<codecVars, sffVars, atlasVars, canvasVars>>

---------------------------------------------------------------------------
(* Bounds of the model. *)
MaxSrcLen == 3        \* longest enumerated compressed buffer
MaxW == 3             \* largest enumerated declared width
MaxH == 2             \* largest enumerated declared height
MaxArchives == 2      \* archives on the command line
MaxSprites == 3       \* largest NumberOfSprites of a version 1 header
MaxSpritesV2 == 2     \* largest NumberOfSprites of a version 2 header
MaxPals == 2          \* largest NumberOfPalettes of a header

\* Content of memory that was never stored to (malloc'ed and not yet written,
\* or outside the buffer): an indeterminate byte.
Indet == -2

---------------------------------------------------------------------------
(* Bit operations on non-negative integers. *)
RECURSIVE BitAnd(_, _)
BitAnd(a, b) ==
    IF a <= 0 \/ b <= 0 THEN 0
    ELSE (a % 2) * (b % 2) + 2 * BitAnd(a \div 2, b \div 2)

RECURSIVE BitOr(_, _)
BitOr(a, b) ==
    IF a <= 0 THEN b
    ELSE IF b <= 0 THEN a
    ELSE (IF a % 2 = 1 \/ b % 2 = 1 THEN 1 ELSE 0)
         + 2 * BitOr(a \div 2, b \div 2)

Shr(a, sh) == a \div (2 ^ sh)
Shl(a, sh) == a * (2 ^ sh)
U8(a) == a % 256

---------------------------------------------------------------------------
(* The buffers. *)
srcLen == Len(srcPx)
dstLen == Size[1] * Size[2]

\* srcPx[p].  The decoders never read outside 0 .. srcLen-1; were the
\* clamp of the cursor missing, such a read is given the value 0 here.
At(p) == IF p \in 0 .. (srcLen - 1) THEN srcPx[p + 1] ELSE 0

\* if (i < srcLen - 1) i++;
AdvMut(p, len) == p + 1
Adv(p, len) == IF p < len - 1 THEN p + 1 ELSE p

\* the test  j < dstLen  that guards every store to dstPx
RoomLeftMut(jj, len) == TRUE
RoomLeft(jj, len) == jj < len

\* dstPx[p] = v  (a store outside the buffer leaves the buffer as it is and
\* is recorded in wr by the caller)
Store(dst, p, v) == IF p \in DOMAIN dst THEN [dst EXCEPT ![p] = v] ELSE dst

\* if (j < dstLen) { dstPx[j] = v; j++; }   on st = [dst, j, wr]
Put(st, v) ==
    IF RoomLeft(st.j, dstLen)
    THEN [dst |-> Store(st.dst, st.j, v), j |-> st.j + 1, wr |-> st.wr \cup {st.j}]
    ELSE st

St0 == [dst |-> dstPx, j |-> j, wr |-> {}]

\* cnt times  if (j < dstLen) { dstPx[j] = v; j++; } .  The test fails for
\* good once it fails, so the stores are those of the leading iterations
\* that pass it.
PutN(st, v, cnt) ==
    LET m == Cardinality({q \in 0 .. (cnt - 1) : RoomLeft(st.j + q, dstLen)})
        at == st.j .. (st.j + m - 1)
    IN  [dst |-> [p \in DOMAIN st.dst |-> IF p \in at THEN v ELSE st.dst[p]],
         j |-> st.j + m,
         wr |-> st.wr \cup at]

---------------------------------------------------------------------------
(* Inputs. *)
Alphabet(f) ==
    CASE f = "rle8" -> {5, 64, 67, 195}     \* 0x05 0x40 0x43 0xC3
      [] f = "pcx"  -> {5, 9, 192, 197}     \* 0x05 0x09 0xC0 0xC5
      [] f = "rle5" -> {0, 1, 3, 129}       \* 0x00 0x01 0x03 0x81
      [] f = "lz5"  -> {0, 2, 67, 195, 255} \* 0x00 0x02 0x43 0xC3 0xFF

SeqsUpTo(S, m) == UNION {[1 .. l -> S] : l \in 0 .. m}

Strides(w) == {r \in {w - 1, w, w + 1} : r >= 1}

\* s->rle on entry: the stride of the PCX sub-header (readPcxHeader), or
\* minus the format code for the version 2 codecs (readSpriteHeaderV2).
RleOnEntry(f, w) ==
    CASE f = "pcx"  -> Strides(w)
      [] f = "rle8" -> {-2}
      [] f = "rle5" -> {-3}
      [] f = "lz5"  -> {-4}

Formats == {"pcx", "rle8", "rle5", "lz5"}

Call(f, sq, w, h, r) == [fmt |-> f, srcPx |-> sq, Size |-> <<w, h>>, rle |-> r]

Enumerated(len) ==
    UNION {UNION {{Call(f, sq, w, h, r) :
                      sq \in SeqsUpTo(Alphabet(f), len),
                      h \in 1 .. MaxH, r \in RleOnEntry(f, w)} :
                  w \in 1 .. MaxW} :
           f \in Formats}

\* Fixed calls: the two RLE8 streams of the round-trip example, a PCX
\* stream whose first run is longer than a scanline and an RLE5 packet.
Rle8Example == Call("rle8", <<195, 24, 194, 5>>, 5, 1, -2)
Rle8Packed == Call("rle8", <<67, 24, 66, 5>>, 5, 1, -2)
PcxExample == Call("pcx", <<197, 7, 9>>, 3, 2, 3)
\* An RLE5 packet with a colour byte and one data byte.
Rle5Example == Call("rle5", <<1, 129, 7, 35>>, 3, 1, -3)

\* An LZ5 stream of a literal run of 17 and four short back-references
\* whose top two bits are 00, 01, 00 and 10.
Lz5Example == Call("lz5", <<30, 5, 9, 1, 0, 65, 0, 1, 0, 129>>, 25, 1, -4)

Inputs(len) ==
    Enumerated(len)
        \cup {Rle8Example, Rle8Packed, PcxExample, Rle5Example, Lz5Example}

---------------------------------------------------------------------------
(* Part I: the decoders. *)

CodecInit ==
    /\ \E c \in Inputs(MaxSrcLen) :
          /\ fmt = c.fmt /\ srcPx = c.srcPx /\ Size = c.Size /\ rle = c.rle
    /\ cpc = "call"
    /\ i = 0 /\ j = 0 /\ k = 0 /\ n = 0 /\ d = 0
    /\ ct = 0 /\ cts = 0 /\ rb = 0 /\ rbc = 0
    /\ dstPx = <<>>
    /\ rd = {} /\ wrote = {} /\ bref = {}
    /\ kStart = 0 /\ jStart = 0 /\ lineStart = 0 /\ line = 0 /\ runIters = 0 /\ spin = FALSE

\* if (srcLen == 0) return NULL;
DecodeEmpty ==
    /\ cpc = "call" /\ srcLen = 0
    /\ cpc' = "null"
    /\ UNCHANGED <<fmt, srcPx, Size, rle, i, j, k, n, d, ct, cts, rb, rbc,
                   dstPx, rd, wrote, bref, kStart, jStart, lineStart, line, runIters, spin>>
    /\ UNCHANGED <<sffVars, atlasVars, canvasVars>>

\* dstPx = malloc(dstLen); i = j = k = 0; and, for LZ5,
\* ct = srcPx[i]; if (i < srcLen - 1) i++;
DecodeEnter ==
    /\ cpc = "call" /\ srcLen > 0
    /\ cpc' = "loop"
    /\ dstPx' = [p \in 0 .. (dstLen - 1) |-> Indet]
    /\ j' = 0 /\ k' = 0 /\ n' = 0 /\ d' = 0
    /\ cts' = 0 /\ rb' = 0 /\ rbc' = 0
    /\ IF fmt = "lz5"
       THEN ct' = At(0) /\ i' = Adv(0, srcLen) /\ rd' = {0}
       ELSE ct' = 0 /\ i' = 0 /\ rd' = {}
    /\ UNCHANGED <<fmt, srcPx, Size, rle, wrote, bref, kStart, jStart, lineStart, line,
                   runIters, spin>>
    /\ UNCHANGED <<sffVars, atlasVars, canvasVars>>

\* (d & 0xc0) == 0x40
Rle8IsRunMut(b) == b >= 192
Rle8IsRun(b) == BitAnd(b, 192) = 64

\* for (; n > 0; n--) { if (j < dstLen) { dstPx[j] = d; j++; } }
Rle8RunMut(nn, v, st) == PutN(st, v, nn + 1)
Rle8Run(nn, v, st) == PutN(st, v, nn)

\* One iteration of the while loop of Rle8Decode.
Rle8Step ==
    /\ cpc = "loop" /\ fmt = "rle8" /\ j < dstLen
    /\ LET d0 == At(i)
           i1 == Adv(i, srcLen)
           run == Rle8IsRun(d0)
           n1 == IF run THEN BitAnd(d0, 63) ELSE 1
           d1 == IF run THEN At(i1) ELSE d0
           i2 == IF run THEN Adv(i1, srcLen) ELSE i1
           st == Rle8Run(n1, d1, St0)
       IN  /\ i' = i2 /\ j' = st.j /\ dstPx' = st.dst
           /\ rd' = IF run THEN {i, i1} ELSE {i}
           /\ wrote' = wrote \cup st.wr
    /\ spin' = (i' = i /\ j' = j)
    /\ UNCHANGED <<fmt, srcPx, Size, rle, cpc, k, n, d, ct, cts, rb, rbc, bref,
                   kStart, jStart, lineStart, line, runIters>>
    /\ UNCHANGED <<sffVars, atlasVars, canvasVars>>

\* if (k == s->rle) { k = 0; n = 1; }  : the count the run is left with
PcxCountAtWrapMut(nn) == nn
PcxCountAtWrap(nn) == 1

\* for (; n > 0; n--) {
\*     if ((k < w) && (j < dstLen)) { dstPx[j] = d; j++; }
\*     k++;
\*     if (k == s->rle) { k = 0; n = 1; }
\* }
\* on r = [st, k, line, iters]
RECURSIVE PcxRun(_, _, _)
PcxRun(nn, v, r) ==
    IF nn > 0
    THEN LET st1 == IF r.k < Size[1] THEN Put(r.st, v) ELSE r.st
             k1 == r.k + 1
             wrap == k1 = rle
         IN  PcxRun((IF wrap THEN PcxCountAtWrap(nn) ELSE nn) - 1, v,
                    [st |-> st1, k |-> IF wrap THEN 0 ELSE k1,
                     line |-> IF wrap THEN r.line + 1 ELSE r.line,
                     iters |-> r.iters + 1])
    ELSE r

\* One iteration of the while loop of RlePcxDecode.
PcxStep ==
    /\ cpc = "loop" /\ fmt = "pcx" /\ j < dstLen
    /\ LET d0 == At(i)
           i1 == Adv(i, srcLen)
           run == d0 >= 192
           n1 == IF run THEN BitAnd(d0, 63) ELSE 1
           d1 == IF run THEN At(i1) ELSE d0
           i2 == IF run THEN Adv(i1, srcLen) ELSE i1
           r == PcxRun(n1, d1, [st |-> St0, k |-> k, line |-> line, iters |-> 0])
       IN  /\ i' = i2 /\ j' = r.st.j /\ dstPx' = r.st.dst /\ k' = r.k
           /\ rd' = IF run THEN {i, i1} ELSE {i}
           /\ wrote' = wrote \cup r.st.wr
           /\ line' = r.line /\ runIters' = r.iters
    /\ kStart' = k /\ jStart' = j /\ lineStart' = line
    /\ spin' = (i' = i /\ j' = j /\ k' = k)
    /\ UNCHANGED <<fmt, srcPx, Size, rle, cpc, n, d, ct, cts, rb, rbc, bref>>
    /\ UNCHANGED <<sffVars, atlasVars, canvasVars>>

\* while (1) {
\*     if (j < dstLen) { dstPx[j] = c; j++; }
\*     rl--;
\*     if (rl < 0) {
\*         dl--;
\*         if (dl < 0) break;
\*         c = srcPx[i] & 0x1f;  rl = srcPx[i] >> 5;
\*         if (i < srcLen - 1) i++;
\*     }
\* }
\* on r = [st, i, rd]: the store is made rl + 1 times before rl < 0.
\* c = srcPx[i] & 0x1f;
Rle5ColourMut(b) == BitAnd(b, 127)
Rle5Colour(b) == BitAnd(b, 31)

RECURSIVE Rle5Inner(_, _, _, _)
Rle5Inner(rl, dl, c, r) ==
    LET st1 == PutN(r.st, c, rl + 1)
    IN  IF dl - 1 < 0
        THEN [r EXCEPT !.st = st1]
        ELSE Rle5Inner(Shr(At(r.i), 5), dl - 1, Rle5Colour(At(r.i)),
                       [st |-> st1, i |-> Adv(r.i, srcLen),
                        rd |-> r.rd \cup {r.i}])

\* One iteration of the outer while loop of Rle5Decode.
Rle5Step ==
    /\ cpc = "loop" /\ fmt = "rle5" /\ j < dstLen
    /\ LET rl == At(i)
           i1 == Adv(i, srcLen)
           dl == BitAnd(At(i1), 127)
           flag == Shr(At(i1), 7) # 0
           i2 == IF flag THEN Adv(i1, srcLen) ELSE i1
           c == IF flag THEN At(i2) ELSE 0
           i3 == Adv(i2, srcLen)
           r == Rle5Inner(rl, dl, c, [st |-> St0, i |-> i3, rd |-> {i, i1, i2}])
       IN  /\ i' = r.i /\ j' = r.st.j /\ dstPx' = r.st.dst
           /\ rd' = r.rd
           /\ wrote' = wrote \cup r.st.wr
    /\ spin' = (i' = i /\ j' = j)
    /\ UNCHANGED <<fmt, srcPx, Size, rle, cpc, k, n, d, ct, cts, rb, rbc, bref,
                   kStart, jStart, lineStart, line, runIters>>
    /\ UNCHANGED <<sffVars, atlasVars, canvasVars>>

\* cts++; if (cts >= 8) { ct = srcPx[i]; cts = 0; if (i < srcLen - 1) i++; }
\* with the cursor at ii
LzNext(ii) ==
    IF cts + 1 >= 8
    THEN [ct |-> At(ii), cts |-> 0, i |-> Adv(ii, srcLen), rd |-> {ii}]
    ELSE [ct |-> ct, cts |-> cts + 1, i |-> ii, rd |-> {}]

\* ct & (1 << cts)
CtBit == BitAnd(ct, Shl(1, cts)) # 0

\* (uint8_t) ((d & 0xc0) >> rbc)
RbBitsMut(b, c) == BitAnd(b, 192)
RbBits(b, c) == U8(Shr(BitAnd(b, 192), c))

\* The head of a back-reference symbol of Lz5Decode: the symbol byte and
\* the bytes that give its distance d and count n.
Lz5BackRef ==
    /\ cpc = "loop" /\ fmt = "lz5" /\ j < dstLen
    /\ CtBit
    /\ LET d0 == At(i)
           i1 == Adv(i, srcLen)
       IN  IF BitAnd(d0, 63) = 0
           THEN \* d = (d << 2 | srcPx[i]) + 1;  n = srcPx[i] + 2;
                LET i2 == Adv(i1, srcLen)
                IN  /\ d' = BitOr(Shl(d0, 2), At(i1)) + 1
                    /\ n' = At(i2) + 2
                    /\ i' = Adv(i2, srcLen)
                    /\ rd' = {i, i1, i2}
                    /\ UNCHANGED <<rb, rbc>>
           ELSE \* rb |= (d & 0xc0) >> rbc;  rbc += 2;  n = d & 0x3f;
                LET rb1 == BitOr(rb, RbBits(d0, rbc))
                    rbc1 == U8(rbc + 2)
                IN  /\ n' = BitAnd(d0, 63)
                    /\ IF rbc1 < 8
                       THEN /\ d' = At(i1) + 1
                            /\ i' = Adv(i1, srcLen)
                            /\ rd' = {i, i1}
                            /\ rb' = rb1 /\ rbc' = rbc1
                       ELSE /\ d' = rb1 + 1
                            /\ i' = i1
                            /\ rd' = {i}
                            /\ rb' = 0 /\ rbc' = 0
    /\ cpc' = "copy"
    /\ spin' = FALSE
    /\ UNCHANGED <<fmt, srcPx, Size, rle, j, k, ct, cts, dstPx, wrote, bref,
                   kStart, jStart, lineStart, line, runIters>>
    /\ UNCHANGED <<sffVars, atlasVars, canvasVars>>

\* One iteration of  for (;;) { if (j < dstLen) { dstPx[j] = dstPx[j - d];
\* j++; } n--; if (n < 0) break; }  that stores a byte.  A source index
\* j - d below 0 is outside the buffer: the byte read is indeterminate.
Lz5Copy ==
    /\ cpc = "copy" /\ RoomLeft(j, dstLen)
    /\ LET v == IF (j - d) \in DOMAIN dstPx THEN dstPx[j - d] ELSE Indet
           nx == LzNext(i)
       IN  /\ dstPx' = Store(dstPx, j, v)
           /\ j' = j + 1
           /\ wrote' = wrote \cup {j}
           /\ bref' = bref \cup {<<j, d>>}
           /\ IF n - 1 < 0
              THEN /\ cpc' = "loop" /\ n' = n - 1
                   /\ ct' = nx.ct /\ cts' = nx.cts /\ i' = nx.i /\ rd' = nx.rd
              ELSE /\ n' = n - 1
                   /\ rd' = {}
                   /\ UNCHANGED <<cpc, ct, cts, i>>
    /\ spin' = FALSE
    /\ UNCHANGED <<fmt, srcPx, Size, rle, k, d, rb, rbc, kStart, jStart, lineStart,
                   line, runIters>>
    /\ UNCHANGED <<sffVars, atlasVars, canvasVars>>

\* The remaining iterations of that loop once j has reached dstLen: they
\* only count n down to -1.
Lz5CopyTail ==
    /\ cpc = "copy" /\ ~RoomLeft(j, dstLen)
    /\ LET nx == LzNext(i)
       IN  /\ cpc' = "loop" /\ n' = -1
           /\ ct' = nx.ct /\ cts' = nx.cts /\ i' = nx.i /\ rd' = nx.rd
    /\ spin' = FALSE
    /\ UNCHANGED <<fmt, srcPx, Size, rle, j, k, d, rb, rbc, dstPx, wrote, bref,
                   kStart, jStart, lineStart, line, runIters>>
    /\ UNCHANGED <<sffVars, atlasVars, canvasVars>>

\* The other outcome of reading dstPx[j - d] below the start of the buffer:
\* the address is not mapped and the process is stopped.
Lz5Fault ==
    /\ cpc = "copy" /\ RoomLeft(j, dstLen) /\ j - d < 0
    /\ cpc' = "fault"
    /\ UNCHANGED <<fmt, srcPx, Size, rle, i, j, k, n, d, ct, cts, rb, rbc,
                   dstPx, rd, wrote, bref, kStart, jStart, lineStart, line, runIters, spin>>
    /\ UNCHANGED <<sffVars, atlasVars, canvasVars>>

\* while (n-- > 0 && j < dstLen) { dstPx[j] = d; j++; }
LitRun(nn, v, st) == PutN(st, v, nn)

\* A literal symbol of Lz5Decode, with the control-bit bookkeeping after it.
Lz5Literal ==
    /\ cpc = "loop" /\ fmt = "lz5" /\ j < dstLen
    /\ ~CtBit
    /\ LET d0 == At(i)
           i1 == Adv(i, srcLen)
           ext == BitAnd(d0, 224) = 0
           n1 == IF ext THEN At(i1) + 8 ELSE Shr(d0, 5)
           v == IF ext THEN d0 ELSE BitAnd(d0, 31)
           i2 == IF ext THEN Adv(i1, srcLen) ELSE i1
           st == LitRun(n1, v, St0)
           nx == LzNext(i2)
       IN  /\ j' = st.j /\ dstPx' = st.dst
           /\ wrote' = wrote \cup st.wr
           /\ ct' = nx.ct /\ cts' = nx.cts /\ i' = nx.i
           /\ rd' = (IF ext THEN {i, i1} ELSE {i}) \cup nx.rd
    /\ spin' = (i' = i /\ j' = j /\ cts' = cts)
    /\ UNCHANGED <<fmt, srcPx, Size, rle, cpc, k, n, d, rb, rbc, bref, kStart, jStart,
                   lineStart, line, runIters>>
    /\ UNCHANGED <<sffVars, atlasVars, canvasVars>>

\* The loop condition  j < dstLen  fails:  return dstPx;  (RlePcxDecode
\* sets s->rle = 0 before it).
DecodeReturn ==
    /\ cpc = "loop" /\ ~(j < dstLen)
    /\ cpc' = "done"
    /\ rle' = IF fmt = "pcx" THEN 0 ELSE rle
    /\ UNCHANGED <<fmt, srcPx, Size, i, j, k, n, d, ct, cts, rb, rbc, dstPx, rd,
                   wrote, bref, kStart, jStart, lineStart, line, runIters, spin>>
    /\ UNCHANGED <<sffVars, atlasVars, canvasVars>>

\* The driver before it has started.
SffIdle ==
    /\ mpc = "idle" /\ argi = 0
    /\ header = [Ver0 |-> Indet, NumberOfSprites |-> Indet, NumberOfPalettes |-> Indet]
    /\ numPalettes = Indet /\ uniquePals = {} /\ pi = 0
    /\ sprites = <<>> /\ si = 0 /\ prev = 0 /\ numLinkedSprites = 0
    /\ palettesSize = 0 /\ rc = 0
    /\ tableAlloc = FALSE /\ loaded = {}
    /\ stale = {} /\ palKey = <<>> /\ closes = 0
    /\ hdrIn = [read |-> FALSE, magic |-> <<>>, Ver0 |-> 0]
    /\ recIn = <<>> /\ palReads = 0 /\ sprReads = 0
    /\ palAccess = {} /\ atlasStages = {}

\* No atlas is being assembled.
AtlasIdle ==
    /\ apc = "idle" /\ tbl = <<>> /\ usePalette = -1 /\ rects = <<>>
    /\ width = Indet /\ height = Indet
    /\ o = <<>> /\ own = <<>> /\ packIn = <<>> /\ saved = FALSE

CodecNext ==
    \/ DecodeEmpty
    \/ DecodeEnter
    \/ Rle8Step
    \/ PcxStep
    \/ Rle5Step
    \/ Lz5BackRef
    \/ Lz5Copy
    \/ Lz5CopyTail
    \/ Lz5Fault
    \/ Lz5Literal
    \/ DecodeReturn

CanvasIdle == zpc = "idle" /\ dims = <<>>

Init == CodecInit /\ SffIdle /\ AtlasIdle /\ CanvasIdle
Next == CodecNext
Spec == Init /\ [][Next]_vars

---------------------------------------------------------------------------
(* Part II: the driver and the archive parser. *)

\* bool opt_extract = false;  (the option -x is not given)
opt_extract == FALSE

\* #define MAX_PAL_NO 256
MAX_PAL_NO == 256

\* "ElecbyteSpr\0"
Signature == <<69, 108, 101, 99, 98, 121, 116, 101, 83, 112, 114, 0>>

\* The first bytes of an archive: the signature, the signature with its
\* last byte or its first byte changed, and a file of eleven bytes.
Magics ==
    {Signature, [Signature EXCEPT ![12] = 1], [Signature EXCEPT ![1] = 0],
     SubSeq(Signature, 1, 11)}

Versions == {1, 2, 3}

\* A header as the file holds it; cut says where the file ends: nowhere in
\* the header, before the version bytes, or before the fields after them.
HeaderInputs ==
    {h \in [magic : Magics, Ver0 : Versions, nspr : 0 .. MaxSprites,
            npal : 0 .. MaxPals, cut : {"none", "version", "fields"}] :
        /\ Len(h.magic) < 12 => h.cut = "version"
        /\ h.Ver0 = 2 => h.nspr <= MaxSpritesV2}

GroupNumbers == {<<0, 0>>, <<9000, 0>>, <<9000, 1>>}
GroupNumbersV2 == {<<0, 0>>, <<9000, 1>>}
PalKeys == {<<1, 1>>, <<1, 2>>}
FormatsV2 == {0, 2, 10, 11}

\* Palette indices of sprite headers: the first slot of the bank and one
\* beyond the largest bank.
PalIdxIn == {0, MaxPals}

\* The width and height, the axis and the colour depth a record carries: in
\* a version 2 archive all of them are fields of the sprite header; in a
\* version 1 archive the axis is a field of the sprite header, the width
\* and height come from the PCX header and there is no colour depth.
HeaderShapes ==
    {[Size |-> <<1, 1>>, Offset |-> <<0, 0>>, coldepth |-> 8],
     [Size |-> <<2, 1>>, Offset |-> <<-1, 3>>, coldepth |-> 5]}

\* The records of the archives are one per group and number: those of
\* group 0 have the first shape, those of group 9000 the second.
ShapeOf(gn) ==
    CHOOSE sh \in HeaderShapes : (sh.Size = <<1, 1>>) <=> (gn[1] = 0)

\* A sprite record as the file holds it: size is 0 for a linked record;
\* cut says at which read the file ends or whether the decoder returns NULL.
\* The fields a record does not come to use are given one value, and so
\* are the group and number of a linked record and the group, number and
\* palette of a record at which the file ends.  A version 2 record of group
\* 0 names the first palette of the bank, one of group 9000 the palette
\* beyond the largest bank.
SpriteInputsV1 ==
    [gn : GroupNumbers, size : {1}, link : {0}, ps : {0, 1}, cut : {"none"}]
    \cup [gn : {<<9000, 1>>}, size : {1}, link : {0}, ps : {0},
          cut : {"data", "palette", "decode"}]
    \cup [gn : {<<9000, 0>>}, size : {0}, link : 0 .. MaxSprites, ps : {0},
          cut : {"none"}]
    \cup [gn : {<<0, 0>>}, size : {0}, link : {0}, ps : {0}, cut : {"header"}]

SpriteInputsV2 ==
    {in \in [gn : GroupNumbersV2, size : {1}, link : {0}, palidx : PalIdxIn,
             format : FormatsV2, cut : {"none"}] :
        (in.palidx = 0) <=> (in.gn = <<0, 0>>)}
    \cup [gn : {<<9000, 1>>}, size : {1}, link : {0}, palidx : {0},
          format : FormatsV2, cut : {"data", "decode"}]
    \cup [gn : {<<0, 0>>}, size : {0}, link : 0 .. MaxSpritesV2, palidx : {0},
          format : {0}, cut : {"none"}]
    \cup [gn : {<<0, 0>>}, size : {0}, link : {0}, palidx : {0}, format : {0},
          cut : {"header"}]

\* newSprite(): memset 0 and palidx = -1
NewSprite ==
    [Group |-> 0, Number |-> 0, Size |-> <<0, 0>>, Offset |-> <<0, 0>>,
     palidx |-> -1, rle |-> 0, coldepth |-> 0, data |-> FALSE]

NoHeader == [read |-> FALSE, magic |-> <<>>, Ver0 |-> 0]

SffInit ==
    /\ mpc = "next" /\ argi = 0
    /\ header = [Ver0 |-> Indet, NumberOfSprites |-> Indet, NumberOfPalettes |-> Indet]
    /\ numPalettes = Indet /\ uniquePals = {} /\ pi = 0
    /\ sprites = <<>> /\ si = 0 /\ prev = 0 /\ numLinkedSprites = 0
    /\ palettesSize = 0 /\ rc = 0
    /\ tableAlloc = FALSE /\ loaded = {}
    /\ stale = {} /\ palKey = <<>> /\ closes = 0
    /\ hdrIn = NoHeader
    /\ recIn = <<>> /\ palReads = 0 /\ sprReads = 0
    /\ palAccess = {} /\ atlasStages = {}

\* No decoder is being called.
CodecIdle ==
    /\ fmt = "pcx" /\ srcPx = <<>> /\ Size = <<0, 0>> /\ rle = 0
    /\ cpc = "idle"
    /\ i = 0 /\ j = 0 /\ k = 0 /\ n = 0 /\ d = 0
    /\ ct = 0 /\ cts = 0 /\ rb = 0 /\ rbc = 0
    /\ dstPx = <<>>
    /\ rd = {} /\ wrote = {} /\ bref = {}
    /\ kStart = 0 /\ jStart = 0 /\ lineStart = 0 /\ line = 0 /\ runIters = 0
    /\ spin = FALSE

\* main calls extractSff for the next archive: the observations of the
\* previous archive are dropped and the locals of the call are new.
NewCall ==
    /\ si' = 0 /\ prev' = 0 /\ pi' = 0 /\ uniquePals' = {}
    /\ hdrIn' = NoHeader /\ recIn' = <<>>
    /\ palReads' = 0 /\ sprReads' = 0
    /\ palAccess' = {} /\ atlasStages' = {} /\ loaded' = {}
    /\ stale' = stale \cup loaded /\ palKey' = <<>>
    /\ closes' = 0
    /\ tableAlloc' = FALSE

\* extractSff: fopen fails, return -1; main goes on to initAtlas.
ExtractOpenFail ==
    /\ mpc = "next" /\ argi < MaxArchives
    /\ rc' = -1 /\ mpc' = "initAtlas"
    /\ NewCall
    /\ UNCHANGED <<argi, header, numPalettes, sprites, numLinkedSprites,
                   palettesSize>>
    /\ UNCHANGED <<codecVars, atlasVars, canvasVars>>

\* extractSff: fopen succeeds.
ExtractOpen ==
    /\ mpc = "next" /\ argi < MaxArchives
    /\ rc' = 0 /\ mpc' = "header"
    /\ NewCall
    /\ UNCHANGED <<argi, header, numPalettes, sprites, numLinkedSprites,
                   palettesSize>>
    /\ UNCHANGED <<codecVars, atlasVars, canvasVars>>

\* memcmp(headerCheck, "ElecbyteSpr\0", 12) == 0
MagicOkMut(buf) == SubSeq(buf, 1, 11) = SubSeq(Signature, 1, 11)
MagicOk(buf) == buf = Signature

\* readSffHeader on the header h of the file, headerCheck holding buf after
\* the fread: its return value and sff->header after it.
HeaderResult(h, buf) ==
    IF ~MagicOk(buf) \/ h.cut = "version"
    THEN [rc |-> -1, header |-> header]
    ELSE LET h1 == [header EXCEPT !.Ver0 = h.Ver0]
         IN  IF h.cut = "fields" THEN [rc |-> -1, header |-> h1]
             ELSE IF h.Ver0 = 2
             THEN [rc |-> 0,
                   header |-> [Ver0 |-> 2, NumberOfSprites |-> h.nspr,
                               NumberOfPalettes |-> h.npal]]
             ELSE IF h.Ver0 = 1
             THEN [rc |-> 0,
                   header |-> [Ver0 |-> 1, NumberOfSprites |-> h.nspr,
                               NumberOfPalettes |-> 0]]
             ELSE [rc |-> -1, header |-> h1]

\* sff->sprites = malloc(...); prev = NULL; sff->numLinkedSprites = 0;
StartSpriteLoop ==
    /\ mpc' = "sprite"
    /\ sprites' = <<>> /\ tableAlloc' = TRUE
    /\ prev' = 0 /\ numLinkedSprites' = 0 /\ si' = 0

\* extractSff: the call of readSffHeader and what follows it up to the
\* first iteration of a loop.  The fread of the twelve bytes is not
\* checked: the bytes of headerCheck the file does not fill are
\* indeterminate.
ReadSffHeader ==
    /\ mpc = "header"
    /\ \E h \in HeaderInputs, fill \in {0, 1} :
          LET buf == h.magic \o [q \in 1 .. (12 - Len(h.magic)) |-> fill]
              r == HeaderResult(h, buf)
          IN  /\ hdrIn' = [read |-> TRUE, magic |-> h.magic, Ver0 |-> h.Ver0]
              /\ header' = r.header
              /\ rc' = r.rc
              /\ closes' = IF r.rc # 0 THEN closes + 1 ELSE closes
              /\ IF r.rc # 0
                 THEN /\ mpc' = "initAtlas"
                      /\ UNCHANGED <<numPalettes, uniquePals, pi, sprites, si, prev,
                                     numLinkedSprites, tableAlloc>>
                 ELSE IF r.header.Ver0 # 1
                 THEN /\ mpc' = "bank"
                      /\ numPalettes' = 0 /\ uniquePals' = {} /\ pi' = 0
                      /\ UNCHANGED <<sprites, si, prev, numLinkedSprites, tableAlloc>>
                 ELSE /\ StartSpriteLoop
                      /\ UNCHANGED <<numPalettes, uniquePals, pi>>
    /\ UNCHANGED <<argi, palettesSize, loaded, stale, palKey, recIn, palReads, sprReads,
                   palAccess, atlasStages>>
    /\ UNCHANGED <<codecVars, atlasVars, canvasVars>>

\* uniquePals.find(key) == uniquePals.end()
IsUniqueMut(key, seen) == TRUE
IsUnique(key, seen) == key \notin seen

\* One iteration of the palette-bank loop: the entry has the key (group,
\* number); cut says whether the file ends in the entry or in its colours.
ReadPaletteEntry ==
    /\ mpc = "bank"
    /\ pi < header.NumberOfPalettes /\ pi < MAX_PAL_NO
    /\ palReads' = palReads + 1
    /\ \E key \in PalKeys, cut \in {"none", "entry", "data"} :
          /\ palKey' = IF cut = "entry" THEN <<>> ELSE key
          /\ IF cut = "entry" \/ (cut = "data" /\ IsUnique(key, uniquePals))
             THEN /\ rc' = -1 /\ mpc' = "initAtlas"
                  /\ closes' = closes + 1
                  /\ UNCHANGED <<numPalettes, uniquePals, pi, loaded, stale>>
             ELSE /\ IF IsUnique(key, uniquePals)
                     THEN /\ loaded' = loaded \cup {pi}
                          /\ stale' = stale \ {pi}
                          /\ uniquePals' = uniquePals \cup {key}
                          /\ numPalettes' = numPalettes + 1
                     ELSE UNCHANGED <<numPalettes, uniquePals, loaded, stale>>
                  /\ pi' = pi + 1
                  /\ UNCHANGED <<rc, mpc, closes>>
    /\ UNCHANGED <<argi, header, sprites, si, prev, numLinkedSprites,
                   palettesSize, tableAlloc, hdrIn, recIn, sprReads, palAccess,
                   atlasStages>>
    /\ UNCHANGED <<codecVars, atlasVars, canvasVars>>

\* The palette-bank loop ends; the map uniquePals goes out of scope.
BankDone ==
    /\ mpc = "bank"
    /\ ~(pi < header.NumberOfPalettes /\ pi < MAX_PAL_NO)
    /\ StartSpriteLoop
    /\ uniquePals' = {} /\ pi' = 0 /\ palKey' = <<>>
    /\ UNCHANGED <<argi, header, numPalettes, palettesSize, rc, loaded, stale,
                   closes, hdrIn, recIn, palReads, sprReads, palAccess, atlasStages>>
    /\ UNCHANGED <<codecVars, atlasVars, canvasVars>>

\* spriteCopy(dst, src)
spriteCopyMut(dst, src) ==
    [dst EXCEPT !.Group = src.Group, !.Number = src.Number,
                !.Size = src.Size, !.palidx = src.palidx]
spriteCopy(dst, src) ==
    [dst EXCEPT !.Group = src.Group, !.Number = src.Number,
                !.Size = src.Size, !.Offset = src.Offset,
                !.palidx = src.palidx, !.rle = src.rle,
                !.coldepth = src.coldepth]

\* The place in sff->sprites of the record the linked record in is copied
\* from, 0 when it is copied from none.
LinkSource(in) ==
    IF in.cut # "header" /\ in.size = 0 /\ in.link < si THEN in.link + 1 ELSE 0

\* if (indexOfPrevious < i) spriteCopy(dst, src); else dst->palidx = 0;
LinkedSpriteMut(s, link) ==
    IF link < si THEN spriteCopy(s, sprites[link + 1]) ELSE s
LinkedSprite(s, link) ==
    IF link < si THEN spriteCopy(s, sprites[link + 1]) ELSE [s EXCEPT !.palidx = 0]

\* if (Group == 9000) { if (Number == 0) prev = sprites[i]; } else prev = sprites[i];
PrevAfterMut(s, idx, p) == idx
PrevAfter(s, idx, p) ==
    IF s.Group = 9000 THEN (IF s.Number = 0 THEN idx ELSE p) ELSE idx

\* readPcxHeader: the width and height of the rectangle of the PCX header
\* and, the encoding byte being 1, the bytes per line (here the width).
readPcxHeader(s, Sz) == [s EXCEPT !.Size = Sz, !.rle = Sz[1]]

\* bool paletteSame = ps != 0 && prev != NULL;
PaletteSameMut(ps, p) == ps # 0
PaletteSame(ps, p) == ps # 0 /\ p # 0

\* readSpriteDataV1 for the record s with same-palette byte ps and a PCX
\* header of size Sz: its return value, the record and sff->palettes.size()
\* after it, whether the palette of the record was read from the file, and
\* whether the branch that allocates a palette and prints the warning was
\* taken.  RlePcxDecode ends with s->rle = 0.
SpriteDataV1(s, ps, Sz, cut) ==
    LET paletteSame == PaletteSame(ps, prev)
        sh == readPcxHeader(s, Sz)
    IN  IF cut = "data"
        THEN [rc |-> -1, s |-> s, size |-> palettesSize,
              filePal |-> FALSE, warn |-> FALSE, closed |-> FALSE]
        ELSE IF cut = "palette" /\ ~paletteSame
        THEN [rc |-> -1, s |-> sh, size |-> palettesSize,
              filePal |-> FALSE, warn |-> FALSE, closed |-> FALSE]
        ELSE LET old == IF ~paletteSame THEN -1
                        ELSE IF prev # 0 THEN sprites[prev].palidx
                        ELSE sh.palidx
                 push == old < 0
                 s1 == [sh EXCEPT !.palidx = IF push THEN palettesSize ELSE old]
                 sz == IF push THEN palettesSize + 1 ELSE palettesSize
                 how == [filePal |-> ~paletteSame, warn |-> paletteSame /\ push]
             IN  IF cut = "decode"
                 THEN [rc |-> -1, s |-> s1, size |-> sz,
                       filePal |-> how.filePal, warn |-> how.warn,
                       closed |-> FALSE]
                 ELSE [rc |-> 0, s |-> [s1 EXCEPT !.data = TRUE, !.rle = 0],
                       size |-> sz, filePal |-> how.filePal, warn |-> how.warn,
                       closed |-> FALSE]

\* readSpriteDataV2 for the record s of the given format: its return value,
\* the record after it, the indices at which palList.palettes was read,
\* whether it returns with a buffer px that no pointer holds any more (the
\* uncompressed format reads px and stores it nowhere), and whether it has
\* closed the file (Indexed_PngDecode does when libpng reports an error
\* while it reads the image, as it does when the file ends in it: cut =
\* "data"; it does not when the signature or the colour type is not the
\* expected one: cut = "decode").
SpriteDataV2(s, format, cut) ==
    IF format < 0 THEN [rc |-> -1, s |-> s, access |-> {}, lost |-> FALSE,
                        closed |-> FALSE]
    ELSE IF format = 0
    THEN IF cut = "data"
         THEN [rc |-> -1, s |-> s, access |-> {}, lost |-> FALSE,
               closed |-> FALSE]
         ELSE [rc |-> 0, s |-> s, access |-> {}, lost |-> TRUE,
               closed |-> FALSE]
    ELSE IF format \in 2 .. 4
    THEN IF cut \in {"data", "decode"}
         THEN [rc |-> -1, s |-> s, access |-> {}, lost |-> FALSE,
               closed |-> FALSE]
         ELSE [rc |-> 0, s |-> [s EXCEPT !.data = TRUE], access |-> {s.palidx},
               lost |-> FALSE, closed |-> FALSE]
    ELSE IF format = 10
    THEN IF cut = "decode"
         THEN [rc |-> -1, s |-> s, access |-> {}, lost |-> FALSE,
               closed |-> FALSE]
         ELSE IF cut = "data"
         THEN [rc |-> -1, s |-> s, access |-> {}, lost |-> FALSE,
               closed |-> TRUE]
         ELSE [rc |-> 0, s |-> [s EXCEPT !.data = TRUE],
               access |-> IF opt_extract THEN {s.palidx} ELSE {},
               lost |-> FALSE, closed |-> FALSE]
    ELSE [rc |-> 0, s |-> s, access |-> {}, lost |-> FALSE, closed |-> FALSE]

\* fclose(file); return -1;  after a failed data reader.  When the reader
\* has closed the file this is a second fclose of the handle: the call
\* returns or the process is stopped.
AfterClose(closed) == IF closed THEN {"initAtlas", "fault"} ELSE {"initAtlas"}

\* The rest of an iteration of the sprite loop once the record header has
\* been read into s0: r is the result of the data reader.
SpriteIterationMut(s0, size, link, r) ==
    IF size = 0 /\ link < si
    THEN /\ sprites' = Append(sprites, LinkedSprite(s0, link))
         /\ numLinkedSprites' = numLinkedSprites + 1
         /\ si' = si + 1
         /\ UNCHANGED <<prev, rc, mpc>>
    ELSE IF size = 0 \/ r.rc # 0
    THEN /\ sprites' = Append(sprites, r.s)
         /\ rc' = -1 /\ mpc' \in AfterClose(r.closed)
         /\ UNCHANGED <<numLinkedSprites, si, prev>>
    ELSE /\ sprites' = Append(sprites, r.s)
         /\ prev' = PrevAfter(r.s, si + 1, prev)
         /\ si' = si + 1
         /\ UNCHANGED <<numLinkedSprites, rc, mpc>>
SpriteIteration(s0, size, link, r) ==
    IF size = 0
    THEN /\ sprites' = Append(sprites, LinkedSprite(s0, link))
         /\ numLinkedSprites' = numLinkedSprites + 1
         /\ si' = si + 1
         /\ UNCHANGED <<prev, rc, mpc>>
    ELSE IF r.rc # 0
    THEN /\ sprites' = Append(sprites, r.s)
         /\ rc' = -1 /\ mpc' \in AfterClose(r.closed)
         /\ UNCHANGED <<numLinkedSprites, si, prev>>
    ELSE /\ sprites' = Append(sprites, r.s)
         /\ prev' = PrevAfter(r.s, si + 1, prev)
         /\ si' = si + 1
         /\ UNCHANGED <<numLinkedSprites, rc, mpc>>

\* readSpriteHeaderV1 on a new record: the axis, the group and the number.
readSpriteHeaderV1(in) ==
    [NewSprite EXCEPT !.Offset = ShapeOf(in.gn).Offset,
                      !.Group = in.gn[1], !.Number = in.gn[2]]

\* readSpriteHeaderV2 on a new record: every field of the header, the
\* format as sprite->rle = -format.
readSpriteHeaderV2(in) ==
    [NewSprite EXCEPT !.Group = in.gn[1], !.Number = in.gn[2],
                      !.Size = ShapeOf(in.gn).Size, !.Offset = ShapeOf(in.gn).Offset,
                      !.rle = -in.format, !.coldepth = ShapeOf(in.gn).coldepth,
                      !.palidx = in.palidx]

\* One iteration of the sprite loop of a version 1 archive.
ReadSpriteV1 ==
    /\ mpc = "sprite" /\ si < header.NumberOfSprites /\ header.Ver0 = 1
    /\ sprReads' = sprReads + 1
    /\ \E in \in SpriteInputsV1 :
          LET s0 == readSpriteHeaderV1(in)
              r == SpriteDataV1(s0, in.ps, ShapeOf(in.gn).Size, in.cut)
              real == in.cut # "header" /\ in.size # 0
          IN  /\ recIn' = Append(recIn, [size |-> in.size,
                                       ps |-> IF real THEN in.ps ELSE 0,
                                       hdr |-> in.cut # "header",
                                       src |-> LinkSource(in),
                                       lost |-> FALSE,
                                       filePal |-> real /\ r.filePal,
                                       warn |-> real /\ r.warn,
                                       pals |-> IF real THEN r.size
                                                ELSE palettesSize])
              /\ palettesSize' = IF real THEN r.size ELSE palettesSize
              /\ IF in.cut = "header"
                 THEN /\ sprites' = Append(sprites, NewSprite)
                      /\ rc' = -1 /\ mpc' = "initAtlas"
                      /\ UNCHANGED <<numLinkedSprites, si, prev>>
                 ELSE SpriteIteration(s0, in.size, in.link, r)
    /\ closes' = IF mpc' = "sprite" THEN closes ELSE closes + 1
    /\ UNCHANGED <<argi, header, numPalettes, uniquePals, pi, tableAlloc,
                   loaded, stale, palKey, hdrIn, palReads, palAccess, atlasStages>>
    /\ UNCHANGED <<codecVars, atlasVars, canvasVars>>

\* One iteration of the sprite loop of a version 2 archive.
ReadSpriteV2 ==
    /\ mpc = "sprite" /\ si < header.NumberOfSprites /\ header.Ver0 = 2
    /\ sprReads' = sprReads + 1
    /\ \E in \in SpriteInputsV2 :
          LET s0 == readSpriteHeaderV2(in)
              r == SpriteDataV2(s0, -s0.rle, in.cut)
              real == in.cut # "header" /\ in.size # 0
          IN  /\ recIn' = Append(recIn, [size |-> in.size, ps |-> 0,
                                       hdr |-> in.cut # "header",
                                       src |-> LinkSource(in),
                                       lost |-> real /\ r.lost,
                                       filePal |-> FALSE, warn |-> FALSE,
                                       pals |-> palettesSize])
              /\ palAccess' = IF real THEN palAccess \cup r.access ELSE palAccess
              /\ IF in.cut = "header"
                 THEN /\ sprites' = Append(sprites, NewSprite)
                      /\ rc' = -1 /\ mpc' = "initAtlas"
                      /\ UNCHANGED <<numLinkedSprites, si, prev>>
                 ELSE SpriteIteration(s0, in.size, in.link, r)
              /\ closes' = (IF real /\ r.closed THEN closes + 1 ELSE closes)
                            + (IF mpc' = "sprite" THEN 0 ELSE 1)
    /\ UNCHANGED <<argi, header, numPalettes, uniquePals, pi, palettesSize,
                   tableAlloc, loaded, stale, palKey, hdrIn, palReads, atlasStages>>
    /\ UNCHANGED <<codecVars, atlasVars, canvasVars>>

\* The sprite loop ends: fclose(file); return 0;
SpriteLoopDone ==
    /\ mpc = "sprite" /\ ~(si < header.NumberOfSprites)
    /\ rc' = 0 /\ mpc' = "initAtlas"
    /\ closes' = closes + 1
    /\ UNCHANGED <<argi, header, numPalettes, uniquePals, pi, sprites,
                   si, prev, numLinkedSprites, palettesSize, tableAlloc, loaded, stale, palKey,
                   hdrIn, recIn, palReads, sprReads, palAccess, atlasStages>>
    /\ UNCHANGED <<codecVars, atlasVars, canvasVars>>

\* sff->sprites[i] is a record for every i < NumberOfSprites.
SpritesReadable ==
    \/ header.NumberOfSprites = 0
    \/ tableAlloc /\ Len(sprites) = header.NumberOfSprites

\* sff->sprites and every sff->sprites[i] were allocated by this call.
TableOwned == tableAlloc /\ Len(sprites) = header.NumberOfSprites

\* main: initAtlas(&atlas, &sff, atoi(palidx)), whatever extractSff returned.
InitAtlas ==
    /\ mpc = "initAtlas"
    /\ atlasStages' = atlasStages \cup {"initAtlas"}
    /\ mpc' = "printSff"
    /\ UNCHANGED <<argi, header, numPalettes, uniquePals, pi, sprites,
                   si, prev, numLinkedSprites, palettesSize, rc, tableAlloc, loaded, stale, palKey, closes,
                   hdrIn, recIn, palReads, sprReads, palAccess>>
    /\ UNCHANGED <<codecVars, atlasVars, canvasVars>>

\* main: printSff(&sff)
PrintSff ==
    /\ mpc = "printSff"
    /\ mpc' = "generateAtlas"
    /\ UNCHANGED <<argi, header, numPalettes, uniquePals, pi, sprites,
                   si, prev, numLinkedSprites, palettesSize, rc, tableAlloc, loaded, stale, palKey, closes,
                   hdrIn, recIn, palReads, sprReads, palAccess, atlasStages>>
    /\ UNCHANGED <<codecVars, atlasVars, canvasVars>>

\* main: generateAtlas(&atlas).  It returns 0, returns -2 (nothing left
\* after cropping) or ends the process with exit(2) (the rectangles do not
\* fit); rectangles of no area always fit and leave nothing.
GenerateAtlas ==
    /\ mpc = "generateAtlas"
    /\ atlasStages' = atlasStages \cup {"generateAtlas"}
    /\ \E out \in {"ok", "empty", "nofit"} :
          /\ (out # "empty" /\ SpritesReadable) =>
                 \E q \in 1 .. Len(sprites) : sprites[q].data
          /\ mpc' = IF out = "nofit" THEN "exit" ELSE "freeSff"
    /\ UNCHANGED <<argi, header, numPalettes, uniquePals, pi, sprites,
                   si, prev, numLinkedSprites, palettesSize, rc, tableAlloc, loaded, stale, palKey, closes,
                   hdrIn, recIn, palReads, sprReads, palAccess>>
    /\ UNCHANGED <<codecVars, atlasVars, canvasVars>>

\* main: freeSff(&sff)
FreeSff ==
    /\ mpc = "freeSff"
    /\ sprites' = <<>> /\ tableAlloc' = FALSE
    /\ palettesSize' = 0
    /\ mpc' = "deinitAtlas"
    /\ UNCHANGED <<argi, header, numPalettes, uniquePals, pi, si, prev,
                   numLinkedSprites, rc, loaded, stale, palKey, closes, hdrIn, recIn, palReads, sprReads,
                   palAccess, atlasStages>>
    /\ UNCHANGED <<codecVars, atlasVars, canvasVars>>

\* main: deinitAtlas(&atlas); and the loop goes on to the next archive.
DeinitAtlas ==
    /\ mpc = "deinitAtlas"
    /\ mpc' = "next" /\ argi' = argi + 1
    /\ UNCHANGED <<header, numPalettes, uniquePals, pi, sprites, si,
                   prev, numLinkedSprites, palettesSize, rc, tableAlloc, loaded, stale, palKey, closes, hdrIn,
                   recIn, palReads, sprReads, palAccess, atlasStages>>
    /\ UNCHANGED <<codecVars, atlasVars, canvasVars>>

\* The other outcome of a stage that reads sff->sprites[i] where extractSff
\* has left no record, or frees what this call did not allocate: the
\* process is stopped.
StageFault ==
    /\ \/ mpc \in {"initAtlas", "generateAtlas"} /\ ~SpritesReadable
       \/ mpc = "freeSff" /\ ~TableOwned
    /\ mpc' = "fault"
    /\ UNCHANGED <<argi, header, numPalettes, uniquePals, pi, sprites,
                   si, prev, numLinkedSprites, palettesSize, rc, tableAlloc, loaded, stale, palKey, closes,
                   hdrIn, recIn, palReads, sprReads, palAccess, atlasStages>>
    /\ UNCHANGED <<codecVars, atlasVars, canvasVars>>

\* main: no archive is left; return 0;
MainReturn ==
    /\ mpc = "next" /\ ~(argi < MaxArchives)
    /\ mpc' = "end"
    /\ UNCHANGED <<argi, header, numPalettes, uniquePals, pi, sprites,
                   si, prev, numLinkedSprites, palettesSize, rc, tableAlloc, loaded, stale, palKey, closes,
                   hdrIn, recIn, palReads, sprReads, palAccess, atlasStages>>
    /\ UNCHANGED <<codecVars, atlasVars, canvasVars>>

SffNext ==
    \/ ExtractOpenFail
    \/ ExtractOpen
    \/ ReadSffHeader
    \/ ReadPaletteEntry
    \/ BankDone
    \/ ReadSpriteV1
    \/ ReadSpriteV2
    \/ SpriteLoopDone
    \/ InitAtlas
    \/ PrintSff
    \/ GenerateAtlas
    \/ FreeSff
    \/ DeinitAtlas
    \/ StageFault
    \/ MainReturn

InitSff == SffInit /\ CodecIdle /\ AtlasIdle /\ CanvasIdle
SpecSff == InitSff /\ [][SffNext]_vars

---------------------------------------------------------------------------
(* Part III: the atlas assembler. *)

MaxAtlasSprites == 2
MaxCanvasSprites == 2   \* sprites placed in one canvas-size computation
MaxArea == 4

\* The pixels of the decoded sprite q of width Sz[1] and height Sz[2]: the
\* byte at an index in ink is a value that names the sprite and the index,
\* every other byte is 0.
PixelsOf(q, Sz, ink) ==
    [p \in 1 .. (Sz[1] * Sz[2]) |-> IF p \in ink THEN 16 * q + p ELSE 0]

\* Sprite q of a table as extractSff leaves it.  A decoded sprite has
\* Size[0] * Size[1] bytes of pixel data; a version 1 sprite that shares no
\* palette has palidx = palettes.size() - 1.
DecodedSprites(q, area) ==
    UNION {UNION {{[Size |-> <<w, h>>, data |-> TRUE,
                    px |-> PixelsOf(q, <<w, h>>, ink),
                    palidx |-> q - 1, atlas_x |-> 0, atlas_y |-> 0] :
                        ink \in SUBSET (1 .. (w * h))} :
                  h \in 1 .. (area \div w)} :
           w \in 1 .. area}

\* A sprite without pixel data (a linked record): data is NULL.
DatalessSprite(q) ==
    [Size |-> <<1, 1>>, data |-> FALSE, px |-> <<>>,
     palidx |-> q - 1, atlas_x |-> 0, atlas_y |-> 0]

RECURSIVE Area(_)
Area(t) ==
    IF t = <<>> THEN 0
    ELSE LET s == t[Len(t)]
         IN  Area(SubSeq(t, 1, Len(t) - 1))
             + (IF s.data THEN s.Size[1] * s.Size[2] ELSE 0)

\* The tables of num sprites whose pixel data take at most area bytes.
RECURSIVE Tables(_, _)
Tables(num, area) ==
    IF num = 0 THEN {<<>>}
    ELSE UNION {{Append(t, s) :
                    s \in {DatalessSprite(num)}
                          \cup DecodedSprites(num, area - Area(t))} :
                t \in Tables(num - 1, area)}

AtlasTables(most) == UNION {Tables(num, MaxArea) : num \in 0 .. most}

\* main has called extractSff, which returned 0, and calls initAtlas with
\* atoi(palidx): 0 unless the option -p gives another index, such as -1.
AtlasInit ==
    /\ apc = "initAtlas"
    /\ tbl \in AtlasTables(MaxAtlasSprites)
    /\ usePalette \in {-1, 0}
    /\ rects = <<>>
    /\ width = Indet /\ height = Indet
    /\ o = <<>> /\ own = <<>> /\ packIn = <<>> /\ saved = FALSE

\* (int16_t) of a uint16_t
ToInt16(v) == IF v >= 32768 THEN v - 65536 ELSE v

\* p[(y * Size[0] + x)]
PixelAt(s, x, y) == s.px[y * s.Size[1] + x + 1]

\* for (x = 0; x < Size[0] && !p[(y * Size[0] + x)]; x++); ends with x = Size[0]
RowBlankMut(s, y) == PixelAt(s, 0, y) = 0
RowBlank(s, y) == \A x \in 0 .. (s.Size[1] - 1) : PixelAt(s, x, y) = 0

\* for (y = 0; y < sprite_height && !p[((y + atlas_y) * Size[0] + x)]; y++);
\* ends with y = sprite_height
ColBlank(s, x, c) == \A y \in 0 .. (c.h - 1) : PixelAt(s, x, y + c.ay) = 0

\* The four loops of the crop, on c = the crop origin (ax, ay) and the
\* cropped width and height so far; wrap says that a size_t counter was
\* decremented at 0.
RECURSIVE CropTop(_, _, _)
CropTop(s, y, c) ==
    IF y < s.Size[2] /\ c.h > 0 /\ RowBlank(s, y)
    THEN CropTop(s, y + 1, [c EXCEPT !.ay = c.ay + 1, !.h = c.h - 1])
    ELSE c

RECURSIVE CropBottom(_, _, _)
CropBottom(s, y, c) ==
    IF y >= c.ay /\ c.h > 0 /\ RowBlank(s, y)
    THEN IF y = 0 THEN [c EXCEPT !.h = c.h - 1, !.wrap = TRUE]
         ELSE CropBottom(s, y - 1, [c EXCEPT !.h = c.h - 1])
    ELSE c

RECURSIVE CropLeft(_, _, _)
CropLeft(s, x, c) ==
    IF x < s.Size[1] /\ c.h > 0 /\ c.w > 0 /\ ColBlank(s, x, c)
    THEN CropLeft(s, x + 1, [c EXCEPT !.ax = c.ax + 1, !.w = c.w - 1])
    ELSE c

RECURSIVE CropRight(_, _, _)
CropRight(s, x, c) ==
    IF x >= c.ax /\ c.h > 0 /\ c.w > 0 /\ ColBlank(s, x, c)
    THEN IF x = 0 THEN [c EXCEPT !.w = c.w - 1, !.wrap = TRUE]
         ELSE CropRight(s, x - 1, [c EXCEPT !.w = c.w - 1])
    ELSE c

\* if (sprite_width < 1 || sprite_height < 1)
\*     sprite_width = sprite_height = atlas_x = atlas_y = 0;
CropCollapseMut(c) == c
CropCollapse(c) ==
    IF c.w < 1 \/ c.h < 1 THEN [c EXCEPT !.w = 0, !.h = 0, !.ax = 0, !.ay = 0]
    ELSE c

\* initAtlas: the crop of one sprite to its content.
CropSprite(s) ==
    LET c0 == [ax |-> 0, ay |-> 0, w |-> ToInt16(s.Size[1]),
               h |-> ToInt16(s.Size[2]), wrap |-> FALSE]
        c1 == CropTop(s, 0, c0)
        c2 == CropBottom(s, s.Size[2] - 1, c1)
        c3 == CropLeft(s, 0, c2)
        c4 == CropRight(s, s.Size[1] - 1, c3)
    IN  CropCollapse(c4)

\* initAtlas goes on with sprite s: it has pixel data and, when a palette
\* is selected, that palette.
Included(s) == s.data /\ (usePalette >= 0 => s.palidx = usePalette)

\* memset(atlas->rects, 0, ...)
ZeroRect == [id |-> 0, w |-> 0, h |-> 0, x |-> 0, y |-> 0, was_packed |-> 0]

SetMax(S) == IF S = {} THEN 0 ELSE CHOOSE v \in S : \A u \in S : u <= v

\* for (i = 0; i * i < prod; i++);  the value of i after the loop, that is
\* the least i >= c with i * i >= prod, found between c and hi by halving.
RECURSIVE RootBetween(_, _, _)
RootBetween(c, hi, prod) ==
    IF c >= hi THEN c
    ELSE LET mid == (c + hi) \div 2
         IN  IF mid * mid < prod THEN RootBetween(mid + 1, hi, prod)
             ELSE RootBetween(c, mid, prod)
RootUp(c, prod) == RootBetween(c, IF prod < 46340 THEN prod ELSE 46340, prod)

\* v <<= 1 on a uint16_t
Doubled(v) == (v * 2) % 65536

\* for (v = 1; v < lim; v <<= 1);  on a uint16_t: the value of v after the
\* loop, or the value at which v stays below lim for ever.
RECURSIVE PowerOfTwo(_, _)
PowerOfTwo(v, lim) ==
    IF v < lim /\ Doubled(v) # v THEN PowerOfTwo(Doubled(v), lim) ELSE v

\* if (i < maxw) i = maxw;
AtLeastMut(c, most) == c
AtLeast(c, most) == IF c < most THEN most ELSE c

\* The canvas size of initAtlas from the summed area and the largest width
\* and height: the width and height the two doubling loops leave, and
\* whether one of them does not end (the height is then not yet assigned
\* when the loop on the width is the one).
CanvasSize(prod, maxw, maxh, h0) ==
    LET lw == AtLeast(RootUp(0, prod), maxw)
        w2 == PowerOfTwo(1, lw)
    IN  IF w2 < lw THEN [width |-> w2, height |-> h0, hang |-> TRUE]
        ELSE LET lh == AtLeast((prod + w2 - 1) \div w2, maxh)
                 h2 == PowerOfTwo(1, lh)
             IN  [width |-> w2, height |-> h2, hang |-> h2 < lh]

\* initAtlas(&atlas, &sff, palidx)
initAtlas ==
    /\ apc = "initAtlas"
    /\ LET num == Len(tbl)
           inc == {q \in 1 .. num : Included(tbl[q])}
           crop == [q \in 1 .. num |-> CropSprite(tbl[q])]
           prod == Area([q \in 1 .. num |->
                            [tbl[q] EXCEPT !.data = (q \in inc)]])
           maxw == SetMax({tbl[q].Size[1] : q \in inc})
           maxh == SetMax({tbl[q].Size[2] : q \in inc})
           cs == CanvasSize(prod, maxw, maxh, height)
       IN  /\ tbl' = [q \in 1 .. num |->
                        IF q \in inc
                        THEN [tbl[q] EXCEPT !.atlas_x = crop[q].ax,
                                            !.atlas_y = crop[q].ay]
                        ELSE tbl[q]]
           /\ rects' = [q \in 1 .. num |->
                          IF q \in inc
                          THEN [ZeroRect EXCEPT !.id = q - 1, !.w = crop[q].w,
                                                !.h = crop[q].h]
                          ELSE ZeroRect]
           /\ width' = cs.width /\ height' = cs.height
           /\ apc' = IF \E q \in inc : crop[q].wrap THEN "fault"
                     ELSE IF cs.hang THEN "hang" ELSE "pack"
    /\ UNCHANGED <<usePalette, o, own, packIn, saved>>
    /\ UNCHANGED <<codecVars, sffVars, canvasVars>>

\* A rectangle with area, and two rectangles sharing a point of the canvas.
Solid(r) == r.w > 0 /\ r.h > 0
Overlap(a, b) ==
    /\ a.x < b.x + b.w /\ b.x < a.x + a.w
    /\ a.y < b.y + b.h /\ b.y < a.y + a.h

\* The rectangle packer on a canvas of W x H.  The rectangles are taken in
\* some order; a rectangle without area needs no space and is put at
\* (0, 0); a rectangle with area is put with its left edge on the left
\* edge of the canvas or on the right edge of a placed rectangle and its
\* top edge on the top edge of the canvas or on the bottom edge of a placed
\* rectangle, inside the canvas and clear of every placed rectangle, or it
\* is not placed.
RECURSIVE PackFrom(_, _, _, _)
PackFrom(W, H, rs, todo) ==
    IF todo = {} THEN {rs}
    ELSE UNION {
        LET r == rs[q]
            placed == {u \in (DOMAIN rs) \ todo :
                          rs[u].was_packed = 1 /\ Solid(rs[u])}
            xs == {0} \cup {rs[u].x + rs[u].w : u \in placed}
            ys == {0} \cup {rs[u].y + rs[u].h : u \in placed}
            at == {[r EXCEPT !.x = pos[1], !.y = pos[2], !.was_packed = 1] :
                      pos \in xs \X ys}
            fits == {r2 \in at :
                        /\ r2.x + r2.w <= W /\ r2.y + r2.h <= H
                        /\ \A u \in placed : ~Overlap(r2, rs[u])}
            outs == IF Solid(r) THEN fits \cup {[r EXCEPT !.was_packed = 0]}
                    ELSE {[r EXCEPT !.x = 0, !.y = 0, !.was_packed = 1]}
        IN  UNION {PackFrom(W, H, [rs EXCEPT ![q] = r2], todo \ {q}) :
                       r2 \in outs} :
        q \in todo}

\* stbrp_pack_rects(&ctx, rects, num) after stbrp_init_target(&ctx, W, H,
\* ...): its return value and the rectangles after it.
stbrp_pack_rects(W, H, rs) ==
    {[ok |-> \A q \in DOMAIN r : r[q].was_packed = 1, rects |-> r] :
        r \in PackFrom(W, H, rs, DOMAIN rs)}

\* generateAtlas: the first call of stbrp_pack_rects.
PackFirst ==
    /\ apc = "pack"
    /\ packIn' = Append(packIn, [W |-> width, H |-> height, rects |-> rects])
    /\ \E out \in stbrp_pack_rects(width, height, rects) :
          /\ rects' = out.rects
          /\ apc' = IF out.ok THEN "crop" ELSE "retry"
    /\ UNCHANGED <<tbl, usePalette, width, height, o, own, saved>>
    /\ UNCHANGED <<codecVars, sffVars, canvasVars>>

\* for (i = 0; i < num; i++) rects[i].was_packed = rects[i].x = rects[i].y = 0;
ResetRectsMut(rs) == rs
ResetRects(rs) ==
    [q \in DOMAIN rs |-> [rs[q] EXCEPT !.was_packed = 0, !.x = 0, !.y = 0]]

\* generateAtlas: the first call has returned 0; atlas->height <<= 1, the
\* rectangles are reset and stbrp_pack_rects is called once more; when it
\* returns 0 again: exit(2).
PackRetry ==
    /\ apc = "retry"
    /\ LET h2 == (height * 2) % 65536
           rs == ResetRects(rects)
       IN  /\ height' = h2
           /\ packIn' = Append(packIn, [W |-> width, H |-> h2, rects |-> rs])
           /\ \E out \in stbrp_pack_rects(width, h2, rs) :
                 /\ rects' = out.rects
                 /\ apc' = IF out.ok THEN "crop" ELSE "exit"
    /\ UNCHANGED <<tbl, usePalette, width, o, own, saved>>
    /\ UNCHANGED <<codecVars, sffVars, canvasVars>>

\* atlas->width = atlas->height = 0; then for every rectangle
\* if (x + w > width) width = x + w; if (y + h > height) height = y + h;
AtlasExtentMut(rs) ==
    [w |-> SetMax({rs[q].w : q \in DOMAIN rs}) % 65536,
     h |-> SetMax({rs[q].h : q \in DOMAIN rs}) % 65536]
AtlasExtent(rs) ==
    [w |-> SetMax({rs[q].x + rs[q].w : q \in DOMAIN rs}) % 65536,
     h |-> SetMax({rs[q].y + rs[q].h : q \in DOMAIN rs}) % 65536]

\* generateAtlas: the crop of the atlas to the rectangles, and return -2
\* when nothing is left.
CropAtlas ==
    /\ apc = "crop"
    /\ LET e == AtlasExtent(rects)
       IN  /\ width' = e.w /\ height' = e.h
           /\ apc' = IF e.w <= 0 \/ e.h <= 0 THEN "empty" ELSE "raster"
    /\ UNCHANGED <<tbl, usePalette, rects, o, own, packIn, saved>>
    /\ UNCHANGED <<codecVars, sffVars, canvasVars>>

\* Offsets into sprite->data and into o of byte b of row rw of the copy
\* of a rectangle:
\*   src = data + (atlas_y * Size[0] + atlas_x);  src += Size[0] per row
\*   dst = o + (width * rects[i].y + rects[i].x);  dst += width per row
SrcIndexMut(s, r, rw, b) == (s.atlas_y * r.w + s.atlas_x) + rw * r.w + b
SrcIndex(s, r, rw, b) == (s.atlas_y * s.Size[1] + s.atlas_x) + rw * s.Size[1] + b
DstIndex(r, rw, b) == (width * r.y + r.x) + rw * width + b

\* The bytes of rectangle r as <<row, byte>>.
Cells(r) == (0 .. (r.h - 1)) \X (0 .. (r.w - 1))

\* The memcpy calls for rectangle q stay inside sprite->data and inside o.
CopyInside(q) ==
    \A cl \in Cells(rects[q]) :
        /\ SrcIndex(tbl[q], rects[q], cl[1], cl[2]) \in 0 .. (Len(tbl[q].px) - 1)
        /\ DstIndex(rects[q], cl[1], cl[2]) \in 0 .. (width * height - 1)

\* for (j = 0; j < rects[i].h; j++, dst += width, src += Size[0])
\*     memcpy(dst, src, rects[i].w);
CopyRows(q, img) ==
    LET r == rects[q]
        hit(p) == {cl \in Cells(r) : DstIndex(r, cl[1], cl[2]) = p}
        last(p) == CHOOSE cl \in hit(p) : \A c2 \in hit(p) : c2[1] <= cl[1]
    IN  [o |-> [p \in DOMAIN img.o |->
                   IF hit(p) = {} THEN img.o[p]
                   ELSE tbl[q].px[SrcIndex(tbl[q], r, last(p)[1], last(p)[2]) + 1]],
         own |-> [p \in DOMAIN img.own |->
                   IF hit(p) = {} THEN img.own[p] ELSE q]]

\* The loop over the records: the rectangles with area are copied in the
\* order of the table.
RECURSIVE Compose(_, _)
Compose(q, img) ==
    IF q > Len(rects) THEN img
    ELSE Compose(q + 1, IF Solid(rects[q]) THEN CopyRows(q, img) ELSE img)

\* generateAtlas: o = malloc(width * height); memset(o, 0, ...); the
\* records; save_as_png(...); return 0.
Raster ==
    /\ apc = "raster"
    /\ IF \A q \in 1 .. Len(rects) : Solid(rects[q]) => CopyInside(q)
       THEN LET blank == [p \in 0 .. (width * height - 1) |-> 0]
                img == Compose(1, [o |-> blank, own |-> blank])
            IN  /\ o' = img.o /\ own' = img.own
                /\ saved' = TRUE
                /\ apc' = "done"
       ELSE /\ apc' = "fault"
            /\ UNCHANGED <<o, own, saved>>
    /\ UNCHANGED <<tbl, usePalette, rects, width, height, packIn>>
    /\ UNCHANGED <<codecVars, sffVars, canvasVars>>

AtlasNext ==
    \/ initAtlas
    \/ PackFirst
    \/ PackRetry
    \/ CropAtlas
    \/ Raster

InitAtlasTable == AtlasInit /\ CodecIdle /\ SffIdle /\ CanvasIdle
SpecAtlas == InitAtlasTable /\ [][AtlasNext]_vars

----------------------------------------------------------------------------
(* Part IV: the canvas-size computation of initAtlas. *)

\* Declared sizes of a sprite: small ones, and ones at and beyond the
\* 32768 that is the largest power of two of a uint16_t.
CanvasShapes ==
    {<<1, 1>>, <<2, 1>>, <<1, 3>>, <<3, 2>>, <<4, 4>>, <<5, 3>>, <<16, 16>>,
     <<255, 1>>, <<300, 200>>, <<256, 256>>, <<16384, 16384>>,
     <<32768, 1>>, <<1, 32768>>, <<32769, 1>>, <<1, 32769>>,
     <<65535, 1>>, <<1, 65535>>, <<32768, 16384>>, <<32768, 20000>>}

RECURSIVE DimLists(_)
DimLists(most) ==
    IF most = 0 THEN {<<>>}
    ELSE LET less == DimLists(most - 1)
         IN  less \cup {Append(l, sh) : l \in less, sh \in CanvasShapes}

\* prod += Size[0] * Size[1] over the sprites placed
RECURSIVE DimArea(_)
DimArea(l) ==
    IF l = <<>> THEN 0
    ELSE DimArea(SubSeq(l, 1, Len(l) - 1)) + l[Len(l)][1] * l[Len(l)][2]

CanvasInit ==
    /\ zpc = "call"
    /\ dims \in DimLists(MaxCanvasSprites)

\* The canvas-size computation of initAtlas on the sizes dims.
canvasSize ==
    /\ zpc = "call"
    /\ LET maxw == SetMax({dims[q][1] : q \in DOMAIN dims})
           maxh == SetMax({dims[q][2] : q \in DOMAIN dims})
           cs == CanvasSize(DimArea(dims), maxw, maxh, height)
       IN  /\ width' = cs.width /\ height' = cs.height
           /\ zpc' = IF cs.hang THEN "hang" ELSE "return"
    /\ UNCHANGED <<apc, tbl, usePalette, rects, o, own, packIn, saved>>
    /\ UNCHANGED <<codecVars, sffVars, dims>>

CanvasNext == canvasSize

InitCanvas == CanvasInit /\ CodecIdle /\ SffIdle /\ AtlasIdle
SpecCanvas == InitCanvas /\ [][CanvasNext]_vars

---------------------------------------------------------------------------
(* Properties of the decoders. *)

Pixels(sq) == [p \in 0 .. (Len(sq) - 1) |-> sq[p + 1]]
Called(c) == fmt = c.fmt /\ srcPx = c.srcPx /\ Size = c.Size
Running == cpc \in {"loop", "copy"}

\* C1: every store of a decoder goes to an index in 0 .. w*h-1, and when
\* the decoder returns its buffer, exactly the w*h pixels have been stored
\* (j = w*h), whatever the input bytes are.
C1_StoresFillExactly ==
    /\ wrote \subseteq 0 .. (dstLen - 1)
    /\ j \in 0 .. dstLen
    /\ cpc = "done" => j = dstLen /\ wrote = 0 .. (dstLen - 1)

\* An RLE8 run of three pixels decoded into a buffer of two: the stream
\* continues after the buffer is full.
C1_Witness ==
    /\ fmt = "rle8" /\ srcPx = <<67, 5>> /\ Size = <<2, 1>>
    /\ cpc = "done" /\ wrote = {0, 1}

\* C2: every call of a decoder terminates.  The loops of the decoders are
\* deterministic in i, j and k, so an iteration that leaves all three as
\* they were is repeated without end: a call that terminates makes none.
C2_Terminates == ~spin

\* C3: the input cursor stays in 0 .. srcLen-1 and every byte read is read
\* at an index in 0 .. srcLen-1 that is not beyond the cursor.
C3_CursorInBuffer ==
    cpc \in {"loop", "copy", "done"} =>
        /\ i \in 0 .. (srcLen - 1)
        /\ rd \subseteq 0 .. i

\* The one-byte RLE8 stream 0x43: the value byte of the run is the run
\* byte itself, read again at the last index.
C3_Witness ==
    /\ fmt = "rle8" /\ srcPx = <<67>> /\ Size = <<2, 1>>
    /\ cpc = "done" /\ i = srcLen - 1 /\ dstPx = Pixels(<<67, 67>>)

\* C4 as stated: Rle8Decode of [0xC3, 24, 0xC2, 5], 5 x 1, returns
\* [24, 24, 24, 5, 5].
C4_AsStated ==
    (Called(Rle8Example) /\ cpc = "done") => dstPx = Pixels(<<24, 24, 24, 5, 5>>)

\* C4 amended: Rle8Decode of [0x43, 24, 0x42, 5] (the runs (0x40|3, 24),
\* (0x40|2, 5)), 5 x 1, returns [24, 24, 24, 5, 5]; of [0xC3, 24, 0xC2, 5]
\* it returns the five literals [0xC3, 24, 0xC2, 5, 5].
C4_Amended ==
    /\ (Called(Rle8Packed) /\ cpc = "done") => dstPx = Pixels(<<24, 24, 24, 5, 5>>)
    /\ (Called(Rle8Example) /\ cpc = "done") => dstPx = Pixels(<<195, 24, 194, 5, 5>>)

C4_Witness == Called(Rle8Packed) /\ cpc = "done" /\ j = 5

\* C5: every byte stored by a back-reference at position p with distance
\* dd equals the output byte at position p - dd.
C5_BackRefCopies ==
    \A b \in bref :
        /\ (b[1] - b[2]) \in DOMAIN dstPx
        /\ dstPx[b[1]] = dstPx[b[1] - b[2]]

\* C27: every byte a back-reference of Lz5Decode stores at position p with
\* distance dd is read from a position p - dd that is at least 0, below p
\* and already written.
C27_BackRefReadsWritten ==
    \A b \in bref :
        /\ 0 <= b[1] - b[2] /\ b[1] - b[2] < b[1]
        /\ (b[1] - b[2]) \in wrote

\* The byte of srcPx at cursor p, and the cursor after it.
ByteAt(p) == srcPx[p + 1]
After(p) == IF p < Len(srcPx) - 1 THEN p + 1 ELSE p

\* The control bit of the symbol at hand is set.
CtSet == (ct \div (2 ^ cts)) % 2 = 1

\* The weight in rb of the two distance bits collected when the count is c.
RbWeight(c) == CASE c = 0 -> 64 [] c = 2 -> 16 [] c = 4 -> 4 [] OTHER -> 1

\* C28: at every symbol boundary of Lz5Decode rbc is 0, 2, 4 or 6 and rb
\* has no bit below the rbc collected ones; a short back-reference (low six
\* bits not 0) puts its top two bits under the collected ones and, while
\* fewer than four are collected, takes the next byte as distance - 1; the
\* fourth takes no byte, uses distance rb + 1 and resets rb and rbc to 0; an
\* extended back-reference and a literal leave rb and rbc as they are.
C28_DistanceBits ==
    /\ [](fmt = "lz5" =>
            /\ rbc \in {0, 2, 4, 6}
            /\ rb \in 0 .. 255 /\ rb % (4 * RbWeight(rbc)) = 0
            /\ rbc = 0 => rb = 0)
    /\ [][(fmt = "lz5" /\ cpc = "loop" /\ j < Size[1] * Size[2]) =>
            LET sym == ByteAt(i)
                top == sym \div 64
            IN  IF ~CtSet \/ sym % 64 = 0
                THEN rb' = rb /\ rbc' = rbc
                ELSE IF rbc < 6
                THEN /\ rbc' = rbc + 2
                     /\ rb' = rb + top * RbWeight(rbc)
                     /\ d' = ByteAt(After(i)) + 1
                     /\ i' = After(After(i))
                     /\ n' = sym % 64
                ELSE /\ d' = rb + top + 1
                     /\ rb' = 0 /\ rbc' = 0
                     /\ i' = After(i)
                     /\ n' = sym % 64]_vars

\* The fourth short back-reference of the example: the bits 00, 01, 00 and
\* 10 give rb = 18, the distance is 19 and no distance byte is taken.
C28_Witness ==
    /\ Called(Lz5Example) /\ cpc = "copy"
    /\ i = 9 /\ j = 23 /\ d = 19 /\ n = 1 /\ rb = 0 /\ rbc = 0

\* C6: a PCX run stays in the scanline in which it starts: k stays below
\* the stride, a run makes no iteration past the end of its scanline, the
\* pixels it stores lie in that scanline's row, and the stream 0xC5 7 9
\* with stride 3, 3 x 2, decodes to 7 7 7 / 9 9 9.
C6_RunStaysInScanline ==
    /\ (fmt = "pcx" /\ cpc = "loop") =>
          LET m == IF rle < Size[1] THEN rle ELSE Size[1]
          IN  /\ k < rle
              /\ kStart + runIters <= rle
              /\ kStart + runIters = rle => k = 0 /\ line = lineStart + 1
              /\ jStart >= lineStart * m
              /\ j <= (lineStart + 1) * m
    /\ (Called(PcxExample) /\ cpc = "done") => dstPx = Pixels(<<7, 7, 7, 9, 9, 9>>)

\* The run of five of the example, cut after the three pixels of row 0.
C6_Witness ==
    /\ Called(PcxExample) /\ cpc = "loop"
    /\ kStart = 0 /\ runIters = 3 /\ k = 0 /\ j = 3 /\ line = 1

\* The top two bits of the byte b are 01.
TopBits01(b) == (b \div 64) % 4 = 1

\* The smaller of two numbers.
Min(a, b) == IF a <= b THEN a ELSE b

\* C20: an iteration of the loop of Rle8Decode that reads the byte d0 with
\* (d0 & 0xC0) == 0x40 stores (d0 & 0x3F) copies of the byte after it (the
\* last byte of the buffer when d0 is the last), cut off at w*h; an
\* iteration that reads any other byte, 0x80 and above included, stores
\* that byte once; the rest of the buffer is left as it was.
C20_RunIffTopBits01 ==
    [][(fmt = "rle8" /\ cpc = "loop" /\ j < dstLen) =>
          LET d0 == srcPx[i + 1]
              nxt == srcPx[Min(i + 1, srcLen - 1) + 1]
              cnt == IF TopBits01(d0) THEN Min(d0 % 64, dstLen - j) ELSE 1
              val == IF TopBits01(d0) THEN nxt ELSE d0
          IN  /\ j' = j + cnt
              /\ \A p \in 0 .. (dstLen - 1) :
                    dstPx'[p] = IF p \in j .. (j + cnt - 1) THEN val ELSE dstPx[p]]_vars

\* Rle8Decode of [0xC3, 0x43, 5] for 3 x 1 has stored 0xC3 as it is and
\* then the run of three copies of 5, cut off at two pixels.
C20_Witness ==
    /\ fmt = "rle8" /\ Size = <<3, 1>> /\ srcPx = <<195, 67, 5>>
    /\ j = 3 /\ dstPx = Pixels(<<195, 5, 5>>)

\* cnt copies of v.
Repeat(v, cnt) == [q \in 1 .. cnt |-> v]

\* The packet of an RLE5 stream that starts at byte p (counted from 0): its
\* second byte, whether it has a colour byte, the number of its data bytes,
\* the bytes of its head, and whether the stream holds all of it.
Pkt2(p) == srcPx[p + 2]
PktFlag(p) == Pkt2(p) \div 128 = 1
PktDl(p) == Pkt2(p) % 128
PktHead(p) == IF PktFlag(p) THEN 3 ELSE 2
PktFits(p) == p + 2 <= srcLen /\ p + PktHead(p) + PktDl(p) <= srcLen

\* The pixels of data byte b, and those of the packet at p: rl + 1 pixels of
\* its colour, then the pixels of its first q data bytes.
PktData(b) == Repeat(b % 32, (b \div 32) + 1)
RECURSIVE PktPixels(_, _)
PktPixels(p, q) ==
    IF q = 0
    THEN Repeat(IF PktFlag(p) THEN srcPx[p + 3] ELSE 0, srcPx[p + 1] + 1)
    ELSE PktPixels(p, q - 1) \o PktData(srcPx[p + PktHead(p) + q])

\* C21: an iteration of the outer loop of Rle5Decode at a packet the stream
\* holds in full (first byte rl; second byte dl in its low 7 bits and in
\* bit 7 whether a third byte gives the colour, else colour 0) stores rl+1
\* pixels of the colour and then, for each of the next dl bytes b,
\* (b >> 5)+1 pixels of colour b & 0x1F, cut off at w*h; the rest of the
\* buffer is left as it was and the cursor is behind the packet (on the
\* last byte when the packet ends the stream).
C21_Rle5Packet ==
    [][(fmt = "rle5" /\ cpc = "loop" /\ j < dstLen /\ PktFits(i)) =>
          LET px == PktPixels(i, PktDl(i))
              cnt == Min(Len(px), dstLen - j)
          IN  /\ j' = j + cnt
              /\ i' = Min(i + PktHead(i) + PktDl(i), srcLen - 1)
              /\ \A p \in 0 .. (dstLen - 1) :
                    dstPx'[p] = IF p \in j .. (j + cnt - 1)
                                THEN px[p - j + 1] ELSE dstPx[p]]_vars

\* Rle5Decode of [1, 0x81, 7, 0x23] for 3 x 1: two pixels of colour 7 and
\* two of colour 3, cut off at three pixels.
C21_Witness ==
    /\ fmt = "rle5" /\ Size = <<3, 1>> /\ srcPx = <<1, 129, 7, 35>>
    /\ j = 3 /\ i = 3 /\ dstPx = Pixels(<<7, 7, 3>>)

---------------------------------------------------------------------------
(* Properties of the parser and the driver. *)

Returned == mpc \notin {"idle", "next", "header", "bank", "sprite"}
LastByteOff == [Signature EXCEPT ![12] = 1]
Max(S) == CHOOSE x \in S : \A y \in S : y <= x

\* The iteration of the sprite loop for record q has run to its end.
Complete(q) == q < Len(sprites) \/ mpc = "sprite" \/ rc = 0

\* The non-linked records before record q, and those of them the sprite
\* loop keeps as prev.
NonLinkedBefore(q) == {u \in 1 .. (q - 1) : recIn[u].size # 0}
KeptBefore(q) ==
    {u \in NonLinkedBefore(q) : ~(sprites[u].Group = 9000 /\ sprites[u].Number # 0)}

\* Record q of a version 1 archive is not linked and has a non-zero
\* same-palette byte.
SamePalette(q) ==
    /\ header.Ver0 = 1 /\ Complete(q)
    /\ recIn[q].size # 0 /\ recIn[q].ps # 0

\* C7: when the twelve bytes handed to readSffHeader differ from the
\* signature or the major version byte is not 1 or 2, extractSff returns
\* -1 and has read no palette-bank entry and no sprite record.
C7_BadHeaderRejected ==
    (hdrIn.read /\ (hdrIn.magic # Signature \/ hdrIn.Ver0 \notin {1, 2})) =>
        /\ mpc \notin {"header", "bank", "sprite"}
        /\ rc = -1
        /\ palReads = 0 /\ sprReads = 0

\* A version 2 header whose signature differs in its last byte only.
C7_Witness ==
    /\ hdrIn.read /\ hdrIn.magic = LastByteOff /\ hdrIn.Ver0 = 2
    /\ mpc = "initAtlas" /\ rc = -1 /\ sprReads = 0

\* C8: when extractSff has returned an error, no atlas stage runs for that
\* archive and the driver is not stopped.
C8_FailedArchiveSkipsAtlas ==
    (Returned /\ rc # 0) => atlasStages = {} /\ mpc \notin {"exit", "fault"}

\* C9: when extractSff has parsed a version 2 archive, the palidx of every
\* sprite and every index at which the palette bank was read for a sprite
\* is in 0 .. numPalettes-1.
C9_PalidxInBank ==
    (Returned /\ rc = 0 /\ header.Ver0 = 2) =>
        /\ \A q \in 1 .. Len(sprites) : sprites[q].palidx \in 0 .. (numPalettes - 1)
        /\ palAccess \subseteq 0 .. (numPalettes - 1)

\* C10 as stated: in a version 1 archive a non-linked sprite with a
\* non-zero same-palette byte that is not the first sprite has the palidx
\* of the non-linked sprite immediately before it.
C10_AsStated ==
    \A q \in 2 .. Len(sprites) :
        (SamePalette(q) /\ NonLinkedBefore(q) # {}) =>
            sprites[q].palidx = sprites[Max(NonLinkedBefore(q))].palidx

\* C10 amended: such a sprite has the palidx of the last non-linked sprite
\* before it that is not of group 9000 with a number other than 0; when
\* there is none it gets a palette of its own, shared with no non-linked
\* sprite before it.
C10_Amended ==
    \A q \in 2 .. Len(sprites) :
        SamePalette(q) =>
            IF KeptBefore(q) # {}
            THEN sprites[q].palidx = sprites[Max(KeptBefore(q))].palidx
            ELSE \A u \in NonLinkedBefore(q) : sprites[u].palidx # sprites[q].palidx

\* Three non-linked sprites, the second of group 9000 number 1 with a
\* palette of its own: the third shares the palette of the first.
C10_Witness ==
    /\ header.Ver0 = 1 /\ mpc = "sprite" /\ Len(sprites) = 3
    /\ \A q \in 1 .. 3 : recIn[q].size # 0
    /\ sprites[2].Group = 9000 /\ sprites[2].Number = 1 /\ recIn[2].ps = 0
    /\ recIn[3].ps # 0
    /\ sprites[3].palidx = sprites[1].palidx
    /\ sprites[3].palidx # sprites[2].palidx

\* Record q has size 0 and a link index that is not less than its own
\* index; record q has size 0 and is copied from an earlier record.
Unresolved(q) == recIn[q].hdr /\ recIn[q].size = 0 /\ recIn[q].src = 0
Resolved(q) == recIn[q].hdr /\ recIn[q].size = 0 /\ recIn[q].src # 0

\* The width and height the sprite header of record q carries in the file:
\* in a version 1 archive it carries none.
HeaderSize(q) ==
    IF header.Ver0 = 1 THEN <<0, 0>>
    ELSE ShapeOf(<<sprites[q].Group, sprites[q].Number>>).Size

\* C11 as stated: a record of size 0 whose link index is not less than its
\* own index is left with width 0, height 0, palidx 0 and no pixel data,
\* and the sprite loop goes on, in archives of both versions.
C11_AsStated ==
    \A q \in 1 .. Len(sprites) :
        Unresolved(q) =>
            /\ sprites[q].Size = <<0, 0>>
            /\ sprites[q].palidx = 0 /\ ~sprites[q].data
            /\ Complete(q)

\* C11 amended: such a record is left with palidx 0 and no pixel data and
\* the sprite loop goes on; its width and height are 0 in a version 1
\* archive and those of its sprite header in a version 2 archive.
C11_Amended ==
    \A q \in 1 .. Len(sprites) :
        Unresolved(q) =>
            /\ sprites[q].Size = HeaderSize(q)
            /\ sprites[q].palidx = 0 /\ ~sprites[q].data
            /\ Complete(q)

\* A version 2 archive whose first record has size 0 and links to itself:
\* the record keeps the width and height of its header and the loop has
\* gone on to a second record.
C11_Witness ==
    /\ header.Ver0 = 2 /\ Len(sprites) = 2 /\ mpc = "sprite"
    /\ Unresolved(1)
    /\ sprites[1].Size # <<0, 0>> /\ sprites[1].palidx = 0 /\ ~sprites[1].data

\* C12 as stated: a record of size 0 whose link index is not less than its
\* own index is fatal: extractSff fails at that record.
C12_AsStated ==
    \A q \in 1 .. Len(sprites) :
        Unresolved(q) => (q = Len(sprites) /\ mpc # "sprite" /\ rc = -1)

\* C12 amended: such a record is not fatal: the sprite loop goes on with
\* the next record, and when extractSff fails it fails at a later record.
C12_Amended ==
    \A q \in 1 .. Len(sprites) :
        Unresolved(q) =>
            /\ (mpc = "sprite" /\ q = Len(sprites)) => (si = q /\ rc = 0)
            /\ (Returned /\ rc # 0) => q < Len(sprites)

\* A version 1 archive whose only record has size 0 and links to itself:
\* extractSff has returned 0.
C12_Witness ==
    /\ header.Ver0 = 1 /\ header.NumberOfSprites = 1 /\ Len(sprites) = 1
    /\ Unresolved(1)
    /\ mpc = "initAtlas" /\ rc = 0

\* The fields spriteCopy is to copy.
Scalars(s) ==
    <<s.Group, s.Number, s.Size, s.Offset, s.palidx, s.rle, s.coldepth>>

\* C13: a record of size 0 with a link to an earlier record has the Group,
\* Number, Size, Offset, palidx, rle and coldepth of that record and no
\* pixel data, and no step of the sprite loop changes a record that is
\* already in the table.
C13_LinkCopiesScalars ==
    /\ [](\A q \in 1 .. Len(sprites) :
            Resolved(q) =>
                /\ Scalars(sprites[q]) = Scalars(sprites[recIn[q].src])
                /\ ~sprites[q].data)
    /\ [][mpc = "sprite" =>
            \A q \in 1 .. Len(sprites) :
                Len(sprites') >= q /\ sprites'[q] = sprites[q]]_vars

\* A version 2 archive: the second record is linked to the first, which
\* has pixel data, a format other than 0 and a palette index other than 0.
C13_Witness ==
    /\ header.Ver0 = 2 /\ Len(sprites) = 2 /\ mpc = "sprite"
    /\ recIn[1].size # 0 /\ sprites[1].data
    /\ sprites[1].rle # 0 /\ sprites[1].palidx # 0
    /\ Resolved(2) /\ recIn[2].src = 1
    /\ Scalars(sprites[2]) = Scalars(sprites[1]) /\ ~sprites[2].data

\* sff->palettes.size() before record q was read.
PalsBefore(q) == IF q = 1 THEN 0 ELSE recIn[q - 1].pals

\* C24 as stated: a non-linked record of a version 1 archive with a non-zero
\* same-palette byte and no previous sprite gets a newly allocated palette
\* that is appended to the list, palidx = new length - 1, with the warning
\* printed, and the sprite loop goes on.
C24_AsStated ==
    \A q \in 1 .. Len(sprites) :
        (header.Ver0 = 1 /\ recIn[q].hdr /\ recIn[q].size # 0 /\ recIn[q].ps # 0
         /\ KeptBefore(q) = {} /\ (q < Len(sprites) \/ Returned)) =>
            /\ recIn[q].warn
            /\ recIn[q].pals = PalsBefore(q) + 1
            /\ sprites[q].palidx = recIn[q].pals - 1
            /\ Complete(q)

\* C24 amended: such a record is read as a record with a palette of its
\* own: when its data, its 768 palette bytes and its pixels can be read
\* the palette bytes of the file fill a new palette that is appended to
\* the list, palidx = new length - 1, no warning is printed and the sprite
\* loop goes on.
C24_Amended ==
    \A q \in 1 .. Len(sprites) :
        (SamePalette(q) /\ KeptBefore(q) = {}) =>
            /\ recIn[q].filePal /\ ~recIn[q].warn
            /\ recIn[q].pals = PalsBefore(q) + 1
            /\ sprites[q].palidx = recIn[q].pals - 1

\* The first record of a version 1 archive has a non-zero same-palette
\* byte; the loop has gone on to a second record.
C24_Witness ==
    /\ header.Ver0 = 1 /\ Len(sprites) = 2 /\ mpc = "sprite" /\ si = 2
    /\ recIn[1].size # 0 /\ recIn[1].ps # 0
    /\ recIn[1].filePal /\ sprites[1].palidx = 0 /\ recIn[1].pals = 1

\* C25: when extractSff has parsed a version 1 archive, every record with
\* palidx >= 0 has palidx < sff->palettes.size().
C25_PalidxInList ==
    (mpc \in {"initAtlas", "printSff", "generateAtlas"} /\ rc = 0
     /\ header.Ver0 = 1) =>
        \A q \in 1 .. Len(sprites) :
            sprites[q].palidx >= 0 => sprites[q].palidx < palettesSize

\* C29: while extractSff reads the file it has opened, the file has not
\* been closed; once it has returned (or has been stopped in its last
\* fclose), the file has been closed exactly once.
C29_ClosedOnce ==
    /\ mpc \in {"header", "bank", "sprite"} => closes = 0
    /\ (hdrIn.read /\ mpc \notin {"header", "bank", "sprite"}) => closes = 1

HeaderAtStart ==
    [Ver0 |-> Indet, NumberOfSprites |-> Indet, NumberOfPalettes |-> Indet]

\* The slots of palList.palettes a version 2 archive with this header uses.
BankSlots == 0 .. (Min(header.NumberOfPalettes, MaxPals) - 1)

\* C17: what extractSff leaves for an archive depends on that archive only,
\* whatever archives were processed before it: when the archive cannot be
\* opened the header is the one of the start of the program, after a
\* version 1 archive palList.numPalettes is the one of the start of the
\* program, and after a version 2 archive no slot of the palette bank
\* within NumberOfPalettes holds the colours of an earlier archive.
C17_StateFromThisArchiveOnly ==
    Returned =>
        /\ ~hdrIn.read => header = HeaderAtStart
        /\ (rc = 0 /\ header.Ver0 = 1) => numPalettes = Indet
        /\ (rc = 0 /\ header.Ver0 = 2) =>
               \A slot \in BankSlots : slot \notin stale

\* C18: no pixel buffer is left without an owning sprite record, and
\* freeSff is only ever entered with a table and records that the current
\* extractSff allocated, one record for every index it frees.
C18_BuffersOwnedFreedOnce ==
    /\ \A q \in 1 .. Len(recIn) : ~recIn[q].lost
    /\ mpc = "freeSff" => TableOwned

---------------------------------------------------------------------------
(* Properties of the atlas assembler. *)

\* initAtlas has run; stbrp_pack_rects has placed every rectangle and the
\* atlas has been cropped.
Cropped == apc \notin {"idle", "initAtlas"}
Packed == apc \in {"raster", "done", "empty"}

\* Sprite q has pixel data and every pixel of it is 0.
AllZero(q) == tbl[q].data /\ \A p \in DOMAIN tbl[q].px : tbl[q].px[p] = 0

\* C14: after initAtlas a decoded sprite all of whose pixels are 0 has a
\* rectangle of width 0 and height 0 and the crop origin (0, 0), and no
\* byte of the atlas image is copied from it.
C14_BlankSpriteNoArea ==
    Cropped =>
        \A q \in 1 .. Len(tbl) :
            AllZero(q) =>
                /\ rects[q].w = 0 /\ rects[q].h = 0
                /\ tbl[q].atlas_x = 0 /\ tbl[q].atlas_y = 0
                /\ \A p \in DOMAIN own : own[p] # q

\* A blank sprite of two rows that initAtlas does not skip, next to a
\* sprite that is copied to the atlas.
C14_Witness ==
    /\ apc = "done" /\ Len(tbl) = 2
    /\ AllZero(1) /\ tbl[1].Size[2] = 2 /\ Included(tbl[1])
    /\ \E p \in DOMAIN own : own[p] = 2

\* C15: when stbrp_pack_rects has succeeded and the atlas is cropped, no
\* two rectangles with area overlap and every rectangle lies inside the
\* atlas: x + w <= width and y + h <= height.
C15_RectsDisjointInside ==
    Packed =>
        /\ \A q, u \in 1 .. Len(rects) :
              (q # u /\ Solid(rects[q]) /\ Solid(rects[u])) =>
                  ~Overlap(rects[q], rects[u])
        /\ \A q \in 1 .. Len(rects) :
              /\ rects[q].x + rects[q].w <= width
              /\ rects[q].y + rects[q].h <= height

\* Two rectangles with area, the second to the right of or below the
\* first, neither reaching the corner of the cropped atlas.
C15_Witness ==
    /\ apc = "done" /\ Len(rects) = 2
    /\ Solid(rects[1]) /\ Solid(rects[2])
    /\ rects[1].x + rects[1].y > 0
    /\ rects[1].x + rects[1].w < width
    /\ rects[2].y + rects[2].h < height

\* C16: in the atlas image the byte at (rect.x + dx, rect.y + dy) is the
\* pixel of the sprite at (atlas_x + dx, atlas_y + dy), read with the
\* width of the sprite before the crop as the stride, and every byte
\* outside all rectangles is 0.
C16_RasterIsCroppedSprite ==
    apc = "done" =>
        /\ \A q \in 1 .. Len(rects) :
              \A dy \in 0 .. (rects[q].h - 1), dx \in 0 .. (rects[q].w - 1) :
                  o[(rects[q].y + dy) * width + rects[q].x + dx]
                      = PixelAt(tbl[q], tbl[q].atlas_x + dx, tbl[q].atlas_y + dy)
        /\ \A y \in 0 .. (height - 1), x \in 0 .. (width - 1) :
              (\A q \in 1 .. Len(rects) :
                    ~(/\ rects[q].x <= x /\ x < rects[q].x + rects[q].w
                      /\ rects[q].y <= y /\ y < rects[q].y + rects[q].h))
                  => o[y * width + x] = 0

\* A sprite of two columns and two rows cropped to its right column: the
\* atlas holds the second and the fourth byte of its pixel data.
C16_Witness ==
    /\ apc = "done" /\ Len(tbl) = 1
    /\ tbl[1].Size = <<2, 2>> /\ tbl[1].atlas_x = 1
    /\ rects[1].w = 1 /\ rects[1].h = 2
    /\ width = 1 /\ height = 2
    /\ o[0] = tbl[1].px[2] /\ o[1] = tbl[1].px[4]
    /\ o[0] # 0 /\ o[1] # 0 /\ o[0] # o[1]

Ink(q) ==
    {pos \in (0 .. (tbl[q].Size[1] - 1)) \X (0 .. (tbl[q].Size[2] - 1)) :
        PixelAt(tbl[q], pos[1], pos[2]) # 0}

\* The rectangle (atlas_x, atlas_y, w, h) of sprite q holds every non-zero
\* pixel of it, and its first and last row and column hold one each.
TightBox(q) ==
    LET x0 == tbl[q].atlas_x
        y0 == tbl[q].atlas_y
        x1 == x0 + rects[q].w - 1
        y1 == y0 + rects[q].h - 1
    IN  /\ \A pos \in Ink(q) : pos[1] \in x0 .. x1 /\ pos[2] \in y0 .. y1
        /\ \E pos \in Ink(q) : pos[1] = x0
        /\ \E pos \in Ink(q) : pos[1] = x1
        /\ \E pos \in Ink(q) : pos[2] = y0
        /\ \E pos \in Ink(q) : pos[2] = y1

Sized == apc = "pack" /\ packIn = <<>>

\* The sprites initAtlas places, their summed uncropped area and their
\* largest uncropped width and height.
Placed == {q \in 1 .. Len(tbl) : Included(tbl[q])}
RECURSIVE AreaOf(_)
AreaOf(S) ==
    IF S = {} THEN 0
    ELSE LET q == CHOOSE q \in S : TRUE
         IN  tbl[q].Size[1] * tbl[q].Size[2] + AreaOf(S \ {q})
Widest == SetMax({tbl[q].Size[1] : q \in Placed})
Tallest == SetMax({tbl[q].Size[2] : q \in Placed})

\* The powers of two of a uint16_t.
Powers == {1, 2, 4, 8, 16, 32, 64, 128, 256, 512, 1024, 2048, 4096, 8192,
           16384, 32768}

\* v is the smallest power of two whose square is at least area (v is at
\* least the square root of area) and that is at least least.
SmallestSide(v, area, least) ==
    /\ v \in Powers /\ v * v >= area /\ v >= least
    /\ \A u \in Powers : (u * u >= area /\ u >= least) => v <= u

\* v is the smallest power of two with v * across at least area (v is at
\* least area / across) and that is at least least.
SmallestOther(v, across, area, least) ==
    /\ v \in Powers /\ v * across >= area /\ v >= least
    /\ \A u \in Powers : (u * across >= area /\ u >= least) => v <= u

C30_CanvasSizeEnds ==
    /\ zpc # "hang"
    /\ zpc = "return" => width \in Powers /\ height \in Powers

====
